---------------------------- MODULE Spec2Model ----------------------------
(***************************************************************************)
(* The rules engine of the falling-block game in                           *)
(* src/projects/tetris-game/game.js (class Game), with the piece catalog   *)
(* and the rotation-kick tables of src/unnamed/part_000 and the input      *)
(* gating of src/unnamed/part_001 (class Controls).                        *)
(*                                                                         *)
(* Conventions.  Positions, row indices and column indices are the         *)
(* 0-based numbers of the JavaScript code; a grid or a matrix is a         *)
(* sequence of rows, so JavaScript's a[r][c] is a[r + 1][c + 1] here.      *)
(* A grid cell is 0 (empty) or the colour token of the piece that was      *)
(* merged there; the colour strings of the catalog are represented by     *)
(* the codes 1..7 (ColorOf).  JavaScript's null is "null" for a piece     *)
(* kind and << >> for a matrix.                                            *)
(***************************************************************************)
EXTENDS Integers, Sequences, FiniteSets, TLC

\* ------------------------------------------------------------ constants
COLS == 10
ROWS == 20
LOCK_DELAY == 500
MAX_LOCK_MOVES == 15
CLEAR_FRAMES == 18
INITIAL_DROP_INTERVAL == 1000

Kinds == {"I", "J", "L", "O", "S", "T", "Z"}

\* --------------------------------------------------------- piece catalog
Shape(kind) ==
  CASE kind = "I" -> << <<0,0,0,0>>, <<1,1,1,1>>, <<0,0,0,0>>, <<0,0,0,0>> >>
    [] kind = "J" -> << <<1,0,0>>, <<1,1,1>>, <<0,0,0>> >>
    [] kind = "L" -> << <<0,0,1>>, <<1,1,1>>, <<0,0,0>> >>
    [] kind = "O" -> << <<1,1>>, <<1,1>> >>
    [] kind = "S" -> << <<0,1,1>>, <<1,1,0>>, <<0,0,0>> >>
    [] kind = "T" -> << <<0,1,0>>, <<1,1,1>>, <<0,0,0>> >>
    [] kind = "Z" -> << <<1,1,0>>, <<0,1,1>>, <<0,0,0>> >>

\* The colour token of a kind ('#00f0f0', ...): seven distinct non-zero values.
ColorOf(kind) ==
  CASE kind = "I" -> 1 [] kind = "J" -> 2 [] kind = "L" -> 3 [] kind = "O" -> 4
    [] kind = "S" -> 5 [] kind = "T" -> 6 [] kind = "Z" -> 7

KICKS_JLTSZ(key) ==
  CASE key = <<0,1>> -> << <<0,0>>, <<-1,0>>, <<-1,-1>>, <<0,2>>, <<-1,2>> >>
    [] key = <<1,0>> -> << <<0,0>>, <<1,0>>, <<1,1>>, <<0,-2>>, <<1,-2>> >>
    [] key = <<1,2>> -> << <<0,0>>, <<1,0>>, <<1,1>>, <<0,-2>>, <<1,-2>> >>
    [] key = <<2,1>> -> << <<0,0>>, <<-1,0>>, <<-1,-1>>, <<0,2>>, <<-1,2>> >>
    [] key = <<2,3>> -> << <<0,0>>, <<1,0>>, <<1,1>>, <<0,-2>>, <<1,-2>> >>
    [] key = <<3,2>> -> << <<0,0>>, <<-1,0>>, <<-1,-1>>, <<0,2>>, <<-1,2>> >>
    [] key = <<3,0>> -> << <<0,0>>, <<-1,0>>, <<-1,-1>>, <<0,2>>, <<-1,2>> >>
    [] key = <<0,3>> -> << <<0,0>>, <<1,0>>, <<1,1>>, <<0,-2>>, <<1,-2>> >>
    [] OTHER -> << <<0,0>> >>

KICKS_I(key) ==
  CASE key = <<0,1>> -> << <<0,0>>, <<-2,0>>, <<1,0>>, <<-2,1>>, <<1,-2>> >>
    [] key = <<1,0>> -> << <<0,0>>, <<2,0>>, <<-1,0>>, <<2,-1>>, <<-1,2>> >>
    [] key = <<1,2>> -> << <<0,0>>, <<-1,0>>, <<2,0>>, <<-1,2>>, <<2,-1>> >>
    [] key = <<2,1>> -> << <<0,0>>, <<1,0>>, <<-2,0>>, <<1,-2>>, <<-2,1>> >>
    [] key = <<2,3>> -> << <<0,0>>, <<2,0>>, <<-1,0>>, <<2,1>>, <<-1,-2>> >>
    [] key = <<3,2>> -> << <<0,0>>, <<-2,0>>, <<1,0>>, <<-2,-1>>, <<1,2>> >>
    [] key = <<3,0>> -> << <<0,0>>, <<1,0>>, <<-2,0>>, <<1,-2>>, <<-2,1>> >>
    [] key = <<0,3>> -> << <<0,0>>, <<-1,0>>, <<2,0>>, <<-1,2>>, <<2,-1>> >>
    [] OTHER -> << <<0,0>> >>

\* A lookup whose next state is (rotationIndex + direction) % 4 as
\* JavaScript computes it, negative for a turn from 0 to the left.
getKickDataNoWrap(type, rotationIndex, direction) ==
  LET sum == rotationIndex + direction
      nextState == IF sum < 0 THEN sum ELSE sum % 4
      key == <<rotationIndex, nextState>>
  IN  IF type = "O" THEN << <<0,0>> >>
      ELSE IF type = "I" THEN KICKS_I(key)
      ELSE KICKS_JLTSZ(key)

\* getKickData(type, rotationIndex, direction): the candidates, in order.
getKickData(type, rotationIndex, direction) ==
  LET nextState == (rotationIndex + direction + 4) % 4
      key == <<rotationIndex, nextState>>
  IN  IF type = "O" THEN << <<0,0>> >>
      ELSE IF type = "I" THEN KICKS_I(key)
      ELSE KICKS_JLTSZ(key)

\* ------------------------------------------------------ sequence helpers
Reverse(s) == [i \in 1..Len(s) |-> s[Len(s) + 1 - i]]

\* Array.prototype.splice(y, 1) on a 0-based index: the array without it.
SpliceOut(a, y) ==
  [i \in 1..(Len(a) - 1) |-> IF i <= y THEN a[i] ELSE a[i + 1]]

EmptyRow == [c \in 1..COLS |-> 0]

\* createGrid(): ROWS rows of COLS zeros.
createGrid == [r \in 1..ROWS |-> EmptyRow]

\* ---------------------------------------------------------- the board
\* rotate(matrix, dir): transpose, then reverse each row (dir > 0) or the
\* order of the rows (dir <= 0).
Transpose(m) == [y \in 1..Len(m) |-> [x \in 1..Len(m) |-> m[x][y]]]

rotate(matrix, dir) ==
  LET t == Transpose(matrix)
  IN  IF dir > 0 THEN [y \in 1..Len(t) |-> Reverse(t[y])] ELSE Reverse(t)

\* rotate() writes into the array it is given: when this.player.matrix is
\* the shape array of a catalog entry, what is written into the one is
\* written into the other.
InPlace(g) ==
  IF g.matrixOf = "own" THEN g
  ELSE [g EXCEPT !.shapes[g.matrixOf] = g.player.matrix]

\* collide(arena, player): an occupied matrix cell on a row that does not
\* exist (arena[r] === undefined: r < 0 or r >= ROWS), on a column that
\* does not exist, or on a non-empty cell.
collide(arena, p) ==
  \E y \in 0..(Len(p.matrix) - 1) : \E x \in 0..(Len(p.matrix[y + 1]) - 1) :
     /\ p.matrix[y + 1][x + 1] # 0
     /\ \/ (y + p.pos.y) \notin 0..(Len(arena) - 1)
        \/ (x + p.pos.x) \notin 0..(Len(arena[y + p.pos.y + 1]) - 1)
        \/ arena[y + p.pos.y + 1][x + p.pos.x + 1] # 0

\* merge(arena, player) writes the colour into the cells row by row.  A
\* write into a row that does not exist throws a TypeError; the rows
\* before it are already written then.
MergeThrowsAt(arena, p) ==
  {y \in 0..(Len(p.matrix) - 1) :
     /\ (y + p.pos.y) \notin 0..(Len(arena) - 1)
     /\ \E x \in 1..Len(p.matrix[y + 1]) : p.matrix[y + 1][x] # 0}

MergeThrows(arena, p) == MergeThrowsAt(arena, p) # {}

Min(S) == CHOOSE n \in S : \A m \in S : n <= m

\* The matrix rows merge() gets through: all, or those before the throw.
MergeRows(arena, p) ==
  IF MergeThrows(arena, p)
  THEN 0..(Min(MergeThrowsAt(arena, p)) - 1)
  ELSE 0..(Len(p.matrix) - 1)

merge(arena, p) ==
  [r \in 1..Len(arena) |-> [c \in 1..Len(arena[r]) |->
     LET y == (r - 1) - p.pos.y
         x == (c - 1) - p.pos.x
     IN  IF /\ y \in MergeRows(arena, p)
            /\ x \in 0..(Len(p.matrix[y + 1]) - 1)
            /\ p.matrix[y + 1][x + 1] # 0
         THEN ColorOf(p.tetromino)
         ELSE arena[r][c]]]

IsFullRow(row) == \A c \in 1..Len(row) : row[c] # 0

\* The scan of arenaSweep(): the indices of the full rows, bottom row first.
RECURSIVE SweepFrom(_, _)
SweepFrom(arena, y) ==
  IF y < 0 THEN << >>
  ELSE (IF IsFullRow(arena[y + 1]) THEN <<y>> ELSE << >>) \o SweepFrom(arena, y - 1)

FullRows(arena) == SweepFrom(arena, Len(arena) - 1)

\* clearingLines.sort((a, b) => b - a): descending order.
MaxAt(s) == CHOOSE i \in 1..Len(s) : \A j \in 1..Len(s) : s[i] >= s[j]

RECURSIVE SortDesc(_)
SortDesc(s) ==
  IF s = << >> THEN << >>
  ELSE <<s[MaxAt(s)]>> \o SortDesc(SpliceOut(s, MaxAt(s) - 1))

\* One turn of the removal loop of completeClear(): splice(y, 1), then
\* unshift an empty row.
RemoveLine(arena, y) ==
  IF y \in 0..(Len(arena) - 1) THEN <<EmptyRow>> \o SpliceOut(arena, y)
  ELSE <<EmptyRow>> \o arena

RECURSIVE RemoveLines(_, _)
RemoveLines(arena, ys) ==
  IF ys = << >> THEN arena
  ELSE RemoveLines(RemoveLine(arena, Head(ys)), Tail(ys))


\* ------------------------------------------------------------ the state
VARIABLES
  grid,                 \* this.grid
  score, level, lines,  \* this.score, this.level, this.lines
  highScore,            \* this.highScore (mirrors localStorage)
  state,                \* this.state: "MENU", "PLAYING", "PAUSED", "GAMEOVER"
  dropCounter,          \* this.dropCounter, in ms
  dropInterval,         \* this.dropInterval, in thirds of a ms (see Thirds)
  lockTimer,            \* this.lockTimer, in ms
  isLocking,            \* this.isLocking
  lockMoves,            \* this.lockMoves
  lastTime,             \* this.lastTime, in ms, counted from the time of the
                        \* latest frame: 0 when update() stored that time
  player,               \* this.player: [pos, matrix, tetromino, rotationIndex]
  bag,                  \* this.bag: kinds, drawn from the end
  nextPiece,            \* this.nextPiece
  holdPiece,            \* this.holdPiece
  canHold,              \* this.canHold
  clearingLines,        \* this.clearingLines
  clearAnimationFrame,  \* this.clearAnimationFrame
  isAnimatingClear,     \* this.isAnimatingClear
  loopRunning,          \* the requestAnimationFrame chain of update() is alive
  timers,               \* the counts of the live startCountdown() intervals
  levelSlider,          \* the value of the #level-slider input
  gameOverScreen,       \* the #game-over-screen element is shown (its class
                        \* list does not hold 'hidden')
  pauseScreen,          \* the #pause-screen element is shown
  reloading,            \* location.reload() was called and the page has not
                        \* been loaded again yet
  prefsStartLevel,      \* localStorage: startLevel of tetris_prefs, 0 when
                        \* no preferences are stored
  shapes,               \* TETROMINOS[kind].shape, for each kind
  matrixOf,             \* the array this.player.matrix refers to: "own", an
                        \* array of its own, or the kind whose catalog shape
                        \* it is
  drawn,                \* history: the kinds drawn since the last fillBag()
  nLocks,               \* history: the number of lockPiece() calls so far
  lockFilled,           \* history: the rows the last lockPiece() made full
  heldAt,               \* history: nLocks at the last hold that acted in
                        \* this game, -1 when there was none
  lastOp,               \* history: the last handler that ran
  script,               \* the scripted calls still to make
  shuffles,             \* the shuffles the scripted calls will meet
  inputsLeft,           \* the player inputs this run may still make
  ticksLeft             \* the frames in state PLAYING and the countdown
                        \* callbacks this run may still see

vars == << grid, score, level, lines, highScore, state, dropCounter,
           dropInterval, lockTimer, isLocking, lockMoves, lastTime, player,
           bag, nextPiece, holdPiece, canHold, clearingLines, clearAnimationFrame,
           isAnimatingClear, loopRunning, timers, levelSlider, gameOverScreen,
           pauseScreen, reloading, prefsStartLevel,
           shapes, matrixOf, drawn,
           nLocks, lockFilled, heldAt, lastOp, script, shuffles, inputsLeft, ticksLeft >>

\* The Game object as one record: the handlers below are functions on it.
This ==
  [ grid |-> grid, score |-> score, level |-> level, lines |-> lines,
    highScore |-> highScore, state |-> state, dropCounter |-> dropCounter,
    dropInterval |-> dropInterval, lockTimer |-> lockTimer,
    isLocking |-> isLocking, lockMoves |-> lockMoves,
    lastTime |-> lastTime, player |-> player,
    bag |-> bag, nextPiece |-> nextPiece, holdPiece |-> holdPiece,
    canHold |-> canHold, clearingLines |-> clearingLines,
    clearAnimationFrame |-> clearAnimationFrame,
    isAnimatingClear |-> isAnimatingClear, loopRunning |-> loopRunning,
    timers |-> timers, levelSlider |-> levelSlider,
    gameOverScreen |-> gameOverScreen, pauseScreen |-> pauseScreen,
    reloading |-> reloading,
    prefsStartLevel |-> prefsStartLevel, shapes |-> shapes, matrixOf |-> matrixOf,
    drawn |-> drawn, nLocks |-> nLocks, lockFilled |-> lockFilled,
    heldAt |-> heldAt ]

Commit(g) ==
  /\ grid' = g.grid /\ score' = g.score /\ level' = g.level
  /\ lines' = g.lines /\ highScore' = g.highScore /\ state' = g.state
  /\ dropCounter' = g.dropCounter /\ dropInterval' = g.dropInterval
  /\ lockTimer' = g.lockTimer /\ isLocking' = g.isLocking
  /\ lockMoves' = g.lockMoves /\ lastTime' = g.lastTime
  /\ player' = g.player /\ bag' = g.bag
  /\ nextPiece' = g.nextPiece /\ holdPiece' = g.holdPiece
  /\ canHold' = g.canHold /\ clearingLines' = g.clearingLines
  /\ clearAnimationFrame' = g.clearAnimationFrame
  /\ isAnimatingClear' = g.isAnimatingClear /\ loopRunning' = g.loopRunning
  /\ timers' = g.timers /\ levelSlider' = g.levelSlider
  /\ gameOverScreen' = g.gameOverScreen /\ pauseScreen' = g.pauseScreen
  /\ reloading' = g.reloading
  /\ prefsStartLevel' = g.prefsStartLevel
  /\ shapes' = g.shapes /\ matrixOf' = g.matrixOf
  /\ drawn' = g.drawn /\ nLocks' = g.nLocks /\ lockFilled' = g.lockFilled
  /\ heldAt' = g.heldAt

\* ------------------------------------------------------- the randomizer
\* Math.random() is r = k / RAND_DEN for a numerator k the environment
\* picks; Math.floor(r * (i + 1)) is then (k * (i + 1)) \div RAND_DEN.
RAND_DEN == 420

\* One shuffle consumes six random numbers, for i = 6 down to 1.  The free
\* shuffles of a run use one of three: all smallest, all middling, all
\* largest; the scripted ones use any.
RandomNumerators == {0, 209, 419}
ShuffleChoices == {[i \in 1..6 |-> k] : k \in RandomNumerators}

\* A swap that loses the element it overwrites.
SwapOverwrite(s, a, b) == [s EXCEPT ![a] = s[b]]

Swap(s, a, b) == [s EXCEPT ![a] = s[b], ![b] = s[a]]

\* The Fisher-Yates loop of fillBag() from index i (0-based) down to 1.
RECURSIVE ShuffleFrom(_, _, _)
ShuffleFrom(pieces, i, ks) ==
  IF i <= 0 THEN pieces
  ELSE LET j == (ks[i] * (i + 1)) \div RAND_DEN
       IN  ShuffleFrom(Swap(pieces, i + 1, j + 1), i - 1, ks)

fillBag(g, ks) ==
  [g EXCEPT !.bag = ShuffleFrom(<<"I", "L", "J", "O", "T", "S", "Z">>, 6, ks),
            !.drawn = << >>]

\* getNextFromBag(): refill an empty bag, then pop.  The result is the
\* game after the pop; the kind popped is the last entry of its history.
getNextFromBag(g, ks) ==
  LET f == IF Len(g.bag) = 0 THEN fillBag(g, ks) ELSE g
  IN  [f EXCEPT !.bag = SubSeq(f.bag, 1, Len(f.bag) - 1),
                !.drawn = Append(f.drawn, f.bag[Len(f.bag)])]

Popped(g) == g.drawn[Len(g.drawn)]

\* ------------------------------------------------------------- timing
\* getDropInterval(level): the frame count of the level.
DropFrames(lvl) ==
  CASE lvl \in {0, 1} -> 48
    [] lvl = 2 -> 43 [] lvl = 3 -> 38 [] lvl = 4 -> 33 [] lvl = 5 -> 28
    [] lvl = 6 -> 23 [] lvl = 7 -> 18 [] lvl = 8 -> 13 [] lvl = 9 -> 8
    [] lvl = 10 -> 6 [] lvl \in {11, 12, 13} -> 5 [] lvl \in {14, 15, 16} -> 4
    [] lvl \in {17, 18, 19} -> 3
    [] OTHER -> IF lvl > 19 THEN 2 ELSE 4

\* (frames / 60) * 1000 ms, kept exact as thirds of a millisecond.
getDropInterval(lvl) == DropFrames(lvl) * 50

Thirds(ms) == 3 * ms

\* ------------------------------------------------------ player actions
SpawnX(matrix) == (COLS \div 2) - (Len(matrix[1]) \div 2)

\* A game over that leaves the high score as it was.
gameOverForgets(g) ==
  [g EXCEPT !.state = "GAMEOVER", !.gameOverScreen = TRUE,
            !.prefsStartLevel = g.level]

\* savePreferences() stores the level of the game as the start level.
savePreferences(g) == [g EXCEPT !.prefsStartLevel = g.level]

gameOver(g) ==
  savePreferences(
    [g EXCEPT !.state = "GAMEOVER", !.gameOverScreen = TRUE,
              !.highScore = IF g.score > g.highScore THEN g.score
                            ELSE g.highScore])

\* A spawn that is not tested for collision.
playerResetNoTopOut(g, ks) ==
  LET a == IF g.nextPiece # "null" THEN g ELSE getNextFromBag(g, ks)
      kind == IF g.nextPiece # "null" THEN g.nextPiece ELSE Popped(a)
      m == Shape(kind)
      b == getNextFromBag(a, ks)
      c == [b EXCEPT !.player = [pos |-> [x |-> SpawnX(m), y |-> 0],
                                 matrix |-> m, tetromino |-> kind,
                                 rotationIndex |-> 0],
                     !.nextPiece = Popped(b),
                     !.isLocking = FALSE, !.lockTimer = 0, !.lockMoves = 0]
  IN  c

\* A spawn that takes the catalog's shape array itself as the matrix.
playerResetShares(g, ks) ==
  LET a == IF g.nextPiece # "null" THEN g ELSE getNextFromBag(g, ks)
      kind == IF g.nextPiece # "null" THEN g.nextPiece ELSE Popped(a)
      m == g.shapes[kind]
      b == getNextFromBag(a, ks)
      c == [b EXCEPT !.player = [pos |-> [x |-> SpawnX(m), y |-> 0],
                                 matrix |-> m, tetromino |-> kind,
                                 rotationIndex |-> 0],
                     !.matrixOf = kind,
                     !.nextPiece = Popped(b),
                     !.isLocking = FALSE, !.lockTimer = 0, !.lockMoves = 0]
  IN  IF collide(c.grid, c.player) THEN gameOver(c) ELSE c

playerReset(g, ks) ==
  LET a == IF g.nextPiece # "null" THEN g ELSE getNextFromBag(g, ks)
      kind == IF g.nextPiece # "null" THEN g.nextPiece ELSE Popped(a)
      \* shape.map(row => [...row]): a new array of new rows
      m == g.shapes[kind]
      b == getNextFromBag(a, ks)
      c == [b EXCEPT !.player = [pos |-> [x |-> SpawnX(m), y |-> 0],
                                 matrix |-> m, tetromino |-> kind,
                                 rotationIndex |-> 0],
                     !.matrixOf = "own",
                     !.nextPiece = Popped(b),
                     !.isLocking = FALSE, !.lockTimer = 0, !.lockMoves = 0]
  IN  IF collide(c.grid, c.player) THEN gameOver(c) ELSE c

Down(p) == [p EXCEPT !.pos.y = p.pos.y + 1]

playerDrop(g) ==
  IF collide(g.grid, Down(g.player))
  THEN [g EXCEPT !.isLocking = TRUE,
                 !.lockTimer = IF g.isLocking THEN g.lockTimer ELSE 0,
                 !.dropCounter = 0]
  ELSE [g EXCEPT !.player = Down(g.player), !.isLocking = FALSE,
                 !.lockTimer = 0, !.dropCounter = 0]

\* A soft drop that restarts a running lock timer when it is blocked.
manualDropRearms(g) ==
  IF collide(g.grid, Down(g.player))
  THEN [g EXCEPT !.isLocking = TRUE, !.lockTimer = 0, !.dropCounter = 0]
  ELSE [g EXCEPT !.player = Down(g.player), !.score = g.score + 1,
                 !.isLocking = FALSE, !.lockTimer = 0, !.dropCounter = 0]

manualDrop(g) ==
  IF collide(g.grid, Down(g.player))
  THEN [g EXCEPT !.isLocking = TRUE,
                 !.lockTimer = IF g.isLocking THEN g.lockTimer ELSE 0,
                 !.dropCounter = 0]
  ELSE [g EXCEPT !.player = Down(g.player), !.score = g.score + 1,
                 !.isLocking = FALSE, !.lockTimer = 0, !.dropCounter = 0]

arenaSweep(g) ==
  LET full == FullRows(g.grid)
  IN  IF Len(full) > 0
      THEN [g EXCEPT !.clearingLines = full, !.isAnimatingClear = TRUE,
                     !.clearAnimationFrame = 0]
      ELSE [g EXCEPT !.clearingLines = full]

\* The element of a one-element set.  A handler that runs its statements
\* one after the other is written as the image of {g} under each of them in
\* turn, which works out the game each statement leaves once.
Only(S) == CHOOSE v \in S : TRUE

\* this.merge(this.grid, this.player) in lockPiece().
Merged(g) ==
  LET merged == merge(g.grid, g.player)
  IN  [g EXCEPT !.grid = merged, !.nLocks = g.nLocks + 1,
                !.lockFilled = Len(FullRows(merged)) - Len(FullRows(g.grid))]

\* lockPiece(): merge, sweep, re-enable hold, spawn.  When merge() throws,
\* the rest of the handler does not run.
lockPiece(g, ks) ==
  IF MergeThrows(g.grid, g.player) THEN Merged(g)
  ELSE Only({ playerReset([s EXCEPT !.canHold = TRUE], ks) :
              s \in { arenaSweep(m) : m \in { Merged(h) : h \in {g} } } })

\* The while loop of playerHardDrop(): the number of y++ it performs.
RECURSIVE DropCount(_, _)
DropCount(arena, p) ==
  IF collide(arena, p) THEN 0 ELSE 1 + DropCount(arena, Down(p))

Max(a, b) == IF a >= b THEN a ELSE b

\* A hard drop that leaves the piece to the lock delay instead of locking.
playerHardDropNoLock(g, ks) ==
  LET dropped == DropCount(g.grid, g.player)
      landed == [g.player EXCEPT !.pos.y = g.player.pos.y + dropped - 1]
  IN  [g EXCEPT !.player = landed, !.isLocking = TRUE,
                !.score = g.score + Max(0, dropped - 1) * 2]

\* A hard drop that pays for the colliding step as well.
playerHardDropPaysAll(g, ks) ==
  LET dropped == DropCount(g.grid, g.player)
      landed == [g.player EXCEPT !.pos.y = g.player.pos.y + dropped - 1]
  IN  lockPiece([g EXCEPT !.player = landed,
                          !.score = g.score + dropped * 2], ks)

playerHardDrop(g, ks) ==
  LET dropped == DropCount(g.grid, g.player)
      landed == [g.player EXCEPT !.pos.y = g.player.pos.y + dropped - 1]
  IN  lockPiece([g EXCEPT !.player = landed,
                          !.score = g.score + Max(0, dropped - 1) * 2], ks)

\* A reset that is not counted.
ResetLockDelayUncounted(g) ==
  IF g.isLocking /\ g.lockMoves < MAX_LOCK_MOVES
  THEN [g EXCEPT !.lockTimer = 0]
  ELSE g

\* The lock-delay reset shared by playerMove() and playerRotate().
ResetLockDelay(g) ==
  IF g.isLocking /\ g.lockMoves < MAX_LOCK_MOVES
  THEN [g EXCEPT !.lockTimer = 0, !.lockMoves = g.lockMoves + 1]
  ELSE g

playerMove(g, dir) ==
  LET moved == [g.player EXCEPT !.pos.x = g.player.pos.x + dir]
  IN  IF collide(g.grid, moved) THEN g
      ELSE ResetLockDelay([g EXCEPT !.player = moved])

\* The candidate placement of kick number i for the rotated matrix.
KickPlacement(p, rotated, kick) ==
  [p EXCEPT !.matrix = rotated,
            !.pos = [x |-> p.pos.x + kick[1], y |-> p.pos.y - kick[2]]]

\* The kicks that fit, by their place in the table.
FittingKicks(g, dir) ==
  LET kicks == getKickData(g.player.tetromino, g.player.rotationIndex, dir)
      rotated == rotate(g.player.matrix, dir)
  IN  {i \in 1..Len(kicks) :
         ~collide(g.grid, KickPlacement(g.player, rotated, kicks[i]))}

\* A rotation that commits the last candidate that fits.
playerRotateLastFit(g, dir) ==
  LET currentRotation == g.player.rotationIndex
      kicks == getKickData(g.player.tetromino, currentRotation, dir)
      rotated == rotate(g.player.matrix, dir)
      fits == FittingKicks(g, dir)
      last == CHOOSE i \in fits : \A j \in fits : j <= i
  IN  IF fits # {}
      THEN ResetLockDelay(
             [g EXCEPT !.player =
                [KickPlacement(g.player, rotated, kicks[last])
                   EXCEPT !.rotationIndex = (currentRotation + dir + 4) % 4]])
      ELSE g

\* A rotation that leaves the rotation index unwrapped.
playerRotateNoWrap(g, dir) ==
  LET currentRotation == g.player.rotationIndex
      kicks == getKickData(g.player.tetromino, currentRotation, dir)
      rotated == rotate(g.player.matrix, dir)
      fits == FittingKicks(g, dir)
  IN  IF fits # {}
      THEN ResetLockDelay(
             [g EXCEPT !.player =
                [KickPlacement(g.player, rotated, kicks[Min(fits)])
                   EXCEPT !.rotationIndex = currentRotation + dir]])
      ELSE [g EXCEPT !.player.matrix = rotate(rotated, -dir)]

\* The loop over the kick candidates: the place in the table of the first
\* one, from the i-th on, that does not collide, 0 when there is none.
RECURSIVE FirstFit(_, _, _, _)
FirstFit(g, rotated, kicks, i) ==
  IF i > Len(kicks) THEN 0
  ELSE IF ~collide(g.grid, KickPlacement(g.player, rotated, kicks[i])) THEN i
  ELSE FirstFit(g, rotated, kicks, i + 1)

playerRotate(g, dir) ==
  LET currentRotation == g.player.rotationIndex
      kicks == getKickData(g.player.tetromino, currentRotation, dir)
      rotated == rotate(g.player.matrix, dir)
      first == FirstFit(g, rotated, kicks, 1)
  IN  InPlace(
        IF first # 0
        THEN ResetLockDelay(
               [g EXCEPT !.player =
                  [KickPlacement(g.player, rotated, kicks[first])
                     EXCEPT !.rotationIndex = (currentRotation + dir + 4) % 4]])
        ELSE [g EXCEPT !.player.matrix = rotate(rotated, -dir)])

\* A hold whose swap leaves the piece where the previous one was.
holdTetrominoKeepsPlace(g, ks) ==
  IF ~g.canHold \/ g.state # "PLAYING" THEN g
  ELSE IF g.holdPiece = "null"
  THEN [playerReset([g EXCEPT !.holdPiece = g.player.tetromino], ks)
          EXCEPT !.canHold = FALSE, !.heldAt = g.nLocks]
  ELSE [g EXCEPT !.player = [pos |-> g.player.pos,
                             matrix |-> Shape(g.holdPiece),
                             tetromino |-> g.holdPiece, rotationIndex |-> 0],
                 !.holdPiece = g.player.tetromino,
                 !.canHold = FALSE, !.heldAt = g.nLocks]

\* A hold that forgets to disable itself after filling the empty slot.
holdTetrominoStaysEnabled(g, ks) ==
  IF ~g.canHold \/ g.state # "PLAYING" THEN g
  ELSE IF g.holdPiece = "null"
  THEN [playerReset([g EXCEPT !.holdPiece = g.player.tetromino], ks)
          EXCEPT !.heldAt = g.nLocks]
  ELSE LET m == Shape(g.holdPiece)
       IN  [g EXCEPT !.player = [pos |-> [x |-> SpawnX(m), y |-> 0],
                                 matrix |-> m, tetromino |-> g.holdPiece,
                                 rotationIndex |-> 0],
                     !.holdPiece = g.player.tetromino,
                     !.canHold = FALSE, !.heldAt = g.nLocks]

holdTetromino(g, ks) ==
  IF ~g.canHold \/ g.state # "PLAYING" THEN g
  ELSE IF g.holdPiece = "null"
  THEN [playerReset([g EXCEPT !.holdPiece = g.player.tetromino], ks)
          EXCEPT !.canHold = FALSE, !.heldAt = g.nLocks]
  ELSE LET m == g.shapes[g.holdPiece]
       IN  [g EXCEPT !.player = [pos |-> [x |-> SpawnX(m), y |-> 0],
                                 matrix |-> m, tetromino |-> g.holdPiece,
                                 rotationIndex |-> 0],
                     !.matrixOf = "own",
                     !.holdPiece = g.player.tetromino,
                     !.canHold = FALSE, !.heldAt = g.nLocks]

togglePause(g) ==
  IF g.state = "PLAYING"
  THEN [g EXCEPT !.state = "PAUSED", !.pauseScreen = TRUE]
  ELSE IF g.state = "PAUSED"
  THEN [g EXCEPT !.state = "PLAYING", !.pauseScreen = FALSE]
  ELSE g

\* lineScores[rowCount] || 100
LineScore(rowCount) ==
  CASE rowCount = 1 -> 100 [] rowCount = 2 -> 300 [] rowCount = 3 -> 500
    [] rowCount = 4 -> 800 [] OTHER -> 100

\* A clear that raises the level but keeps the old drop interval.
completeClearKeepsSpeed(g) ==
  LET rowCount == Len(g.clearingLines)
      newLines == g.lines + rowCount
      newLevel == (newLines \div 10) + 1
      up == newLevel > g.level
  IN  [g EXCEPT !.grid = RemoveLines(g.grid, SortDesc(g.clearingLines)),
                !.lines = newLines,
                !.score = g.score + LineScore(rowCount) * g.level,
                !.level = IF up THEN newLevel ELSE g.level,
                !.clearingLines = << >>,
                !.isAnimatingClear = FALSE]

completeClear(g) ==
  LET rowCount == Len(g.clearingLines)
      newLines == g.lines + rowCount
      newLevel == (newLines \div 10) + 1
      up == newLevel > g.level
  IN  [g EXCEPT !.grid = RemoveLines(g.grid, SortDesc(g.clearingLines)),
                !.lines = newLines,
                !.score = g.score + LineScore(rowCount) * g.level,
                !.level = IF up THEN newLevel ELSE g.level,
                !.dropInterval = IF up THEN getDropInterval(newLevel)
                                 ELSE g.dropInterval,
                !.clearingLines = << >>,
                !.isAnimatingClear = FALSE]


\* A frame that lets gravity and the lock delay run during the clear
\* animation too.
FrameFallsWhileClearing(g, deltaTime, ks) ==
  IF g.state # "PLAYING" THEN g
  ELSE LET f == [g EXCEPT !.clearAnimationFrame = g.clearAnimationFrame + 1]
           e == IF ~g.isAnimatingClear THEN g
                ELSE IF f.clearAnimationFrame >= CLEAR_FRAMES
                THEN completeClear(f) ELSE f
           a == [e EXCEPT !.dropCounter = e.dropCounter + deltaTime]
           b == IF Thirds(a.dropCounter) > a.dropInterval THEN playerDrop(a) ELSE a
           c == IF b.isLocking
                THEN [b EXCEPT !.lockTimer = b.lockTimer + deltaTime] ELSE b
       IN  IF c.isLocking /\ c.lockTimer >= LOCK_DELAY
           THEN [lockPiece(c, ks) EXCEPT
                   !.loopRunning = ~MergeThrows(c.grid, c.player)]
           ELSE c

\* The body of update(time) after its first two lines: one frame of the
\* loop that finds deltaTime ms elapsed.
Frame(g, deltaTime, ks) ==
  IF g.state # "PLAYING" THEN g
  ELSE IF g.isAnimatingClear
  THEN LET f == [g EXCEPT !.clearAnimationFrame = g.clearAnimationFrame + 1]
       IN  IF f.clearAnimationFrame >= CLEAR_FRAMES THEN completeClear(f) ELSE f
  ELSE LET a == [g EXCEPT !.dropCounter = g.dropCounter + deltaTime]
           b == IF Thirds(a.dropCounter) > a.dropInterval THEN playerDrop(a) ELSE a
           c == IF b.isLocking
                THEN [b EXCEPT !.lockTimer = b.lockTimer + deltaTime] ELSE b
       IN  IF c.isLocking /\ c.lockTimer >= LOCK_DELAY
           THEN [lockPiece(c, ks) EXCEPT
                   \* an exception leaves update() before it re-arms the loop
                   !.loopRunning = ~MergeThrows(c.grid, c.player)]
           ELSE c

\* An update() that stores the time of a frame only while PLAYING.
updateStaleTime(g, elapsed, ks) ==
  IF g.state # "PLAYING" THEN [g EXCEPT !.lastTime = g.lastTime - elapsed]
  ELSE Frame([g EXCEPT !.lastTime = 0], elapsed - g.lastTime, ks)

\* update(time) for a frame elapsed ms after the previous one:
\* deltaTime = time - this.lastTime; this.lastTime = time; then the frame.
update(g, elapsed, ks) ==
  Frame([g EXCEPT !.lastTime = 0], elapsed - g.lastTime, ks)

\* startCountdown(): a new interval timer with count = 3.
COUNTDOWN_FROM == 3

startCountdown(g) == [g EXCEPT !.timers = Append(g.timers, COUNTDOWN_FROM)]

\* The callback of the i-th live interval: count--; while count >= 0 it
\* only updates the display, after that it clears the interval and sets
\* the state to PLAYING.
countdownCallback(g, i) ==
  IF g.timers[i] - 1 >= 0
  THEN [g EXCEPT !.timers[i] = g.timers[i] - 1]
  ELSE [g EXCEPT !.timers = SpliceOut(g.timers, i - 1), !.state = "PLAYING"]

\* start(startLevel)
start(g, startLevel, ks) ==
  LET a == [g EXCEPT !.grid = createGrid, !.score = 0, !.lines = 0,
                     !.level = startLevel,
                     !.dropInterval = getDropInterval(startLevel),
                     !.bag = << >>, !.holdPiece = "null", !.canHold = TRUE,
                     !.isAnimatingClear = FALSE, !.clearingLines = << >>,
                     !.heldAt = -1]
      b == getNextFromBag(fillBag(a, ks), ks)
      c == playerReset([b EXCEPT !.nextPiece = Popped(b)], ks)
  IN  startCountdown([c EXCEPT !.state = "PLAYING",
                                 !.gameOverScreen = FALSE])

\* reset()
reset(g) ==
  [g EXCEPT !.grid = createGrid, !.score = 0, !.lines = 0, !.level = 1,
            !.holdPiece = "null", !.bag = << >>,
            !.isAnimatingClear = FALSE, !.clearingLines = << >>]

\* The click handler of #start-btn: start() at the level of the slider.
startClick(g, ks) == start(g, g.levelSlider, ks)

\* The click handler of #restart-btn: reset(), the game-over screen hidden,
\* start(1).  It tests no state.
restartClick(g, ks) ==
  start([reset(g) EXCEPT !.gameOverScreen = FALSE], 1, ks)

\* The keydown handler of Controls: Enter starts from the menu, P resumes
\* a paused game, R restarts after a game over, and the game keys act only
\* while the state is PLAYING.  The codes are event.keyCode.
GameKeys == {37, 39, 40, 38, 90, 32, 67}

\* A handler whose game keys also act on a paused or ended game.
keydownUnguarded(g, keyCode, ks) ==
  IF g.state = "MENU"
  THEN (IF keyCode = 13 THEN startClick(g, ks) ELSE g)
  ELSE CASE keyCode = 37 -> playerMove(g, -1)
         [] keyCode = 39 -> playerMove(g, 1)
         [] keyCode = 40 -> manualDrop(g)
         [] keyCode \in {38, 88} -> playerRotate(g, 1)
         [] keyCode \in {90, 17} -> playerRotate(g, -1)
         [] keyCode = 32 -> playerHardDrop(g, ks)
         [] keyCode = 67 -> holdTetromino(g, ks)
         [] keyCode \in {80, 27} -> togglePause(g)
         [] OTHER -> g

keydown(g, keyCode, ks) ==
  IF g.state = "MENU"
  THEN (IF keyCode = 13 THEN startClick(g, ks) ELSE g)
  ELSE IF g.state = "PAUSED"
  THEN (IF keyCode \in {80, 27} THEN togglePause(g) ELSE g)
  ELSE IF g.state = "GAMEOVER"
  THEN (IF keyCode = 82 THEN restartClick(g, ks) ELSE g)
  ELSE IF g.state # "PLAYING" THEN g
  ELSE CASE keyCode = 37 -> playerMove(g, -1)
         [] keyCode = 39 -> playerMove(g, 1)
         [] keyCode = 40 -> manualDrop(g)
         [] keyCode \in {38, 88} -> playerRotate(g, 1)
         [] keyCode \in {90, 17} -> playerRotate(g, -1)
         [] keyCode = 32 -> playerHardDrop(g, ks)
         [] keyCode = 67 -> holdTetromino(g, ks)
         [] keyCode \in {80, 27} -> togglePause(g)
         [] OTHER -> g

\* The object the constructor leaves when localStorage holds the high
\* score stored and the start level startLevel (0: none stored, and
\* parseInt(null) || 0, prefs.startLevel || 1 apply).
constructor(stored, startLevel) ==
  [ grid |-> createGrid, score |-> 0, level |-> 1, lines |-> 0,
    highScore |-> stored, state |-> "MENU", dropCounter |-> 0,
    dropInterval |-> Thirds(INITIAL_DROP_INTERVAL), lockTimer |-> 0,
    isLocking |-> FALSE, lockMoves |-> 0, lastTime |-> 0,
    player |-> [pos |-> [x |-> 0, y |-> 0], matrix |-> << >>,
                tetromino |-> "null", rotationIndex |-> 0],
    bag |-> << >>, nextPiece |-> "null", holdPiece |-> "null",
    canHold |-> TRUE, clearingLines |-> << >>, clearAnimationFrame |-> 0,
    isAnimatingClear |-> FALSE, loopRunning |-> TRUE, timers |-> << >>,
    levelSlider |-> IF startLevel = 0 THEN 1 ELSE startLevel,
    gameOverScreen |-> FALSE, pauseScreen |-> FALSE, reloading |-> FALSE,
    prefsStartLevel |-> startLevel,
    shapes |-> [kind \in Kinds |-> Shape(kind)], matrixOf |-> "own",
    drawn |-> << >>, nLocks |-> 0, lockFilled |-> 0, heldAt |-> -1 ]

\* The object of a page loaded with an empty localStorage.
Constructed == constructor(0, 0)

\* The click handler of #quit-btn: location.reload().  The call asks for
\* the reload and returns; the page and its object stay as they are, and
\* its handlers keep running, until the page is loaded again.
quitClick(g) == [g EXCEPT !.reloading = TRUE]

\* The page loaded again: its DOMContentLoaded listener constructs a new
\* object, with the localStorage the old page left.
pageLoad(g) == constructor(g.highScore, g.prefsStartLevel)

\* The click handler of #mute-btn, but for the sound: savePreferences().
muteClick(g) == savePreferences(g)


\* ------------------------------------------------------------ scripts
\* A script is a sequence of handler calls <<name, argument>>.  A run
\* first makes the calls of its script, from the constructed object, and
\* is then free to make any call; the shuffles of a script are the random
\* numbers Math.random() gives the shuffles the script runs into.
NoShuffle == [i \in 1..6 |-> 0]

Apply(g, tok, ks) ==
  CASE tok[1] = "start" -> start(g, tok[2], ks)
    [] tok[1] = "playerMove" -> playerMove(g, tok[2])
    [] tok[1] = "playerRotate" -> playerRotate(g, tok[2])
    [] tok[1] = "manualDrop" -> manualDrop(g)
    [] tok[1] = "playerHardDrop" -> playerHardDrop(g, ks)
    [] tok[1] = "holdTetromino" -> holdTetromino(g, ks)
    [] tok[1] = "togglePause" -> togglePause(g)
    [] tok[1] = "update" -> update(g, tok[2], ks)
    [] tok[1] = "countdown" -> countdownCallback(g, 1)
    [] tok[1] = "constructor" -> constructor(tok[2], tok[3])

\* n copies of a call.
RECURSIVE Times(_, _)
Times(tok, n) == IF n <= 0 THEN << >> ELSE <<tok>> \o Times(tok, n - 1)

\* Turn the fresh piece `turns` quarter-turns clockwise and shift it
\* `shift` columns (negative: to the left).
Steer(turns, shift) ==
  Times(<<"playerRotate", 1>>, turns)
    \o Times(<<"playerMove", IF shift < 0 THEN -1 ELSE 1>>,
             IF shift < 0 THEN -shift ELSE shift)

\* The same, then a hard drop.
Put(turns, shift) == Steer(turns, shift) \o << <<"playerHardDrop", 0>> >>

\* n frames of 17 ms.
Frames(n) == Times(<<"update", 17>>, n)

\* A game started at level 1 whose countdown has run out before the first
\* key is pressed.
Begun ==
  << <<"start", 1>> >> \o Times(<<"countdown", 0>>, COUNTDOWN_FROM + 1)

\* The shuffle that leaves kind number j (0-based, in the order of the
\* array fillBag() starts from) at the end of the bag, drawn first.
ShuffleFor(j) == [i \in 1..6 |-> IF i = 6 THEN j * (RAND_DEN \div 7) ELSE 0]

WellFourScript ==
  Begun \o Put(0, -3) \o Put(3, -2) \o Put(1, -1)
    \o Put(0, 1) \o Put(0, 3) \o Put(1, 0) \o Put(3, 4) \o Put(2, -3)
    \o Put(2, 2)

WellFourShuffles ==
  << <<210, 280, 210, 0, 70, 180>>,
     <<0, 280, 315, 0, 280, 60>> >>

WellSplitScript ==
  Begun \o Put(0, -4) \o Put(0, -1) \o Put(2, 1)
    \o Put(3, 4) \o Put(0, -3) \o Put(2, 0) \o Put(1, -3) \o Put(0, 3)
    \o Put(1, -4) \o Put(1, -2) \o Put(1, 1) \o Put(3, 4) \o Put(2, 0)

WellSplitShuffles ==
  << <<210, 280, 210, 336, 0, 180>>,
     <<210, 140, 315, 168, 140, 180>>,
     <<210, 140, 210, 84, 280, 180>> >>

WellOneScript ==
  Begun \o Put(0, -3) \o Put(0, 0) \o Put(0, 3)

WellOneShuffles ==
  << <<0, 0, 0, 336, 140, 60>> >>

WellPairScript ==
  Begun \o Put(0, -3) \o Put(0, -1) \o Put(0, 2)
    \o Put(1, 4) \o Put(0, -2) \o Put(2, 0) \o Put(1, 2)

WellPairShuffles ==
  << <<0, 0, 0, 336, 70, 180>>,
     <<210, 280, 105, 336, 210, 0>> >>

WellThreeScript ==
  Begun \o Put(0, -3) \o Put(0, 0) \o Put(0, 3)
    \o Put(0, -1) \o Put(1, 0) \o Put(0, 3) \o Put(0, -3) \o Put(2, 3)

WellThreeShuffles ==
  << <<0, 0, 210, 168, 0, 180>>,
     <<0, 140, 315, 252, 0, 120>> >>

WellUpperScript ==
  Begun \o Put(1, -4) \o Put(1, -2) \o Put(3, 1)
    \o Put(0, 3) \o Put(1, -3) \o Put(1, 3) \o Put(0, 0) \o Put(2, 2)

WellUpperShuffles ==
  << <<0, 280, 105, 336, 350, 0>>,
     <<0, 280, 105, 252, 0, 240>> >>

NinthScript ==
  Begun \o Put(0, -3) \o Put(3, -2) \o Put(1, -1)
    \o Put(0, 1) \o Put(0, 3) \o Put(1, 0) \o Put(3, 4) \o Put(2, -3)
    \o Put(2, 2) \o Put(1, -5) \o Frames(18) \o Put(0, 4) \o Frames(18)
    \o Put(0, 1) \o Frames(18) \o Put(0, 1) \o Put(0, 1) \o Put(0, -3)
    \o Put(3, -1) \o Put(1, 3) \o Put(3, -2) \o Put(1, -5) \o Frames(18)

NinthShuffles ==
  << <<210, 280, 210, 0, 70, 180>>,
     <<210, 280, 315, 0, 280, 60>>,
     <<0, 0, 105, 84, 140, 180>> >>

CaveScript ==
  Begun \o Put(3, 0) \o Steer(0, -2)
    \o Times(<<"manualDrop", 0>>, 16)

CaveShuffles ==
  << <<210, 280, 315, 84, 140, 240>> >>

TowerScript ==
  Begun \o Put(1, -2) \o Put(1, -2) \o Put(1, -3)
    \o Put(1, -3) \o Put(3, 0) \o Put(1, -2) \o Put(1, -2)
    \o Times(<<"playerMove", -1>>, 1)

TowerShuffles ==
  << <<0, 140, 0, 84, 70, 0>>,
     <<210, 280, 210, 336, 210, 60>> >>

BrinkScript ==
  << <<"start", 1>> >> \o Put(3, 1) \o Put(1, 0) \o << <<"countdown", 0>> >>
    \o Put(2, 0) \o Put(3, 1) \o << <<"countdown", 0>> >>
    \o Put(1, 2) \o Put(1, 0) \o << <<"countdown", 0>> >> \o Put(0, -1)

BrinkShuffles ==
  << <<0, 140, 105, 336, 0, 60>>,
     <<0, 140, 315, 252, 0, 120>> >>

\* The T piece held, then a stack that reaches row 1 in column 6: the O
\* piece is active and free at the spawn position, where the T piece would
\* lie on the stack.
OverlapScript ==
  Begun \o << <<"holdTetromino", 0>> >> \o Put(1, -2) \o Put(2, -1)
    \o Put(2, 1) \o Put(3, 1) \o Put(3, 1) \o Put(0, 0) \o Put(0, 1)
    \o Put(1, 1)

OverlapShuffles ==
  << <<0, 140, 315, 84, 70, 240>>,
     <<210, 280, 0, 252, 70, 240>> >>

\* n moves, alternately to the left and to the right.
RECURSIVE Wiggle(_)
Wiggle(n) ==
  IF n <= 0 THEN << >>
  ELSE << <<"playerMove", IF n % 2 = 0 THEN -1 ELSE 1>> >> \o Wiggle(n - 1)

\* The T piece soft-dropped onto the floor of an empty board, the lock
\* delay armed, and n lock-delay resets used up by moves.
RestingScript(n) ==
  Begun \o Times(<<"manualDrop", 0>>, ROWS) \o Wiggle(n)

RestingShuffles == << ShuffleFor(4) >>

\* The I piece lying on an O piece, one step to the left from sliding off
\* it, with all MAX_LOCK_MOVES resets used up.
LedgeScript ==
  Begun \o Put(0, 1) \o Times(<<"manualDrop", 0>>, 18)
    \o << <<"playerMove", -1>> >> \o Wiggle(MAX_LOCK_MOVES - 1)

LedgeShuffles ==
  << <<0, 280, 105, 336, 0, 180>> >>

\* The first piece held, the second dropped, the third turned and moved.
HeldScript ==
  Begun \o << <<"holdTetromino", 0>> >> \o Put(0, 0) \o Steer(1, -2)

HeldShuffles == << ShuffleFor(4) >>

\* The first piece held and the game paused.
HeldPausedScript ==
  Begun \o << <<"holdTetromino", 0>>, <<"togglePause", 0>> >>

\* The first piece held, the second dropped, the third soft-dropped onto
\* the stack and 300 ms into its lock delay.
HeldRestingScript ==
  Begun \o << <<"holdTetromino", 0>> >> \o Put(0, 0)
    \o Times(<<"manualDrop", 0>>, ROWS) \o << <<"update", 300>> >>

\* Stacks with a well in column 0, the next piece being the I piece.
Wells ==
  { <<WellOneScript, WellOneShuffles>>, <<WellPairScript, WellPairShuffles>>,
    <<WellSplitScript, WellSplitShuffles>>,
    <<WellThreeScript, WellThreeShuffles>>,
    <<WellFourScript, WellFourShuffles>>,
    <<WellUpperScript, WellUpperShuffles>> }

Scenarios ==
  \* the menu screen
  { << << >>, << >> >> }
  \* a game just started, with any kind as the first piece
    \cup { << Begun, << ShuffleFor(j) >> >> : j \in 0..6 }
  \* the I piece upright above the well
    \cup { << w[1] \o Steer(1, -5), w[2] >> : w \in Wells }
  \* the I piece dropped into the well, the clear animation two frames
  \* from its end
    \cup { << w[1] \o Put(1, -5) \o Frames(CLEAR_FRAMES - 2), w[2] >> :
           w \in Wells }
  \* nine lines cleared and the clear of the tenth two frames from its end
    \cup { << NinthScript \o Put(0, 0) \o Frames(CLEAR_FRAMES - 2),
              NinthShuffles >>,
           <<CaveScript, CaveShuffles>>, <<TowerScript, TowerShuffles>>,
           <<BrinkScript, BrinkShuffles>>,
  \* the same with a high score of 9999 in localStorage
           << << <<"constructor", 9999, 0>> >> \o BrinkScript,
              BrinkShuffles >>,
  \* the start screen of a page loaded with a high score of 200 and a
  \* start level of 5 in localStorage
           << << <<"constructor", 200, 5>> >>, << >> >> }
  \* a piece in its lock delay with no, all but one and all resets used
    \cup { << RestingScript(n), RestingShuffles >> :
           n \in {0, MAX_LOCK_MOVES - 1, MAX_LOCK_MOVES} }
    \cup { <<LedgeScript, LedgeShuffles>>, <<HeldScript, HeldShuffles>>,
           <<HeldRestingScript, HeldShuffles>>,
           <<HeldPausedScript, HeldShuffles>>,
           <<OverlapScript, OverlapShuffles>> }
  \* the I piece dropped into the well and, before the next frame, the
  \* piece after it soft-dropped onto the stack
    \cup { << WellOneScript \o Put(1, -5) \o Times(<<"manualDrop", 0>>, ROWS),
              WellOneShuffles >> }

\* ------------------------------------------------------------- bounds
\* After its script a run makes at most MaxInputs player inputs and sees
\* at most MaxTicks timed events: frames that find the game PLAYING and
\* callbacks of the countdown interval.
MaxInputs == 2
MaxTicks == 2

\* The elapsed times a frame may report: one shorter than the lock delay
\* and one longer than the lock delay and the level-1 drop interval.
Deltas == {300, 900}

\* The positions the player may move the level slider to.
StartLevels == {1, 5}

\* ------------------------------------------------------------ actions
\* The random numbers a handler may consume: it shuffles only when the bag
\* is empty at its draw.
KsFor(g) == IF Len(g.bag) = 0 THEN ShuffleChoices ELSE {NoShuffle}

Load(g) ==
  /\ grid = g.grid /\ score = g.score /\ level = g.level
  /\ lines = g.lines /\ highScore = g.highScore /\ state = g.state
  /\ dropCounter = g.dropCounter /\ dropInterval = g.dropInterval
  /\ lockTimer = g.lockTimer /\ isLocking = g.isLocking
  /\ lockMoves = g.lockMoves /\ lastTime = g.lastTime
  /\ player = g.player /\ bag = g.bag
  /\ nextPiece = g.nextPiece /\ holdPiece = g.holdPiece
  /\ canHold = g.canHold /\ clearingLines = g.clearingLines
  /\ clearAnimationFrame = g.clearAnimationFrame
  /\ isAnimatingClear = g.isAnimatingClear /\ loopRunning = g.loopRunning
  /\ timers = g.timers /\ levelSlider = g.levelSlider
  /\ gameOverScreen = g.gameOverScreen /\ pauseScreen = g.pauseScreen
  /\ reloading = g.reloading
  /\ prefsStartLevel = g.prefsStartLevel
  /\ shapes = g.shapes /\ matrixOf = g.matrixOf
  /\ drawn = g.drawn /\ nLocks = g.nLocks /\ lockFilled = g.lockFilled
  /\ heldAt = g.heldAt

Init ==
  /\ Load(Constructed)
  /\ \E sc \in Scenarios : script = sc[1] /\ shuffles = sc[2]
  /\ lastOp = <<"constructor", 0>>
  /\ inputsLeft = MaxInputs /\ ticksLeft = MaxTicks

\* The next call of the script.
Scripted ==
  /\ script # << >>
  /\ LET tok == Head(script)
         ks == IF shuffles = << >> THEN NoShuffle ELSE Head(shuffles)
         h == Apply(This, tok, ks)
         shuffled == tok[1] = "start" \/ (Len(bag) = 0 /\ Len(h.bag) = 6)
     IN  /\ Commit(h)
         /\ lastOp' = <<tok[1], tok[2]>>
         /\ script' = Tail(script)
         /\ shuffles' = IF Tail(script) = << >> THEN << >>
                        ELSE IF shuffled /\ shuffles # << >> THEN Tail(shuffles)
                        ELSE shuffles
  /\ UNCHANGED <<inputsLeft, ticksLeft>>

\* A call the run is free to make, once its script is over.
Free == script = << >> /\ UNCHANGED <<script, shuffles>>

\* The level slider of the start screen moved to another position.  The
\* start screen is shown exactly while the state is MENU: start() hides it
\* and nothing shows it again.
Slide ==
  /\ Free /\ state = "MENU" /\ inputsLeft > 0
  /\ \E v \in StartLevels \ {levelSlider} :
       /\ Commit([This EXCEPT !.levelSlider = v])
       /\ lastOp' = <<"slide", v>>
  /\ inputsLeft' = inputsLeft - 1
  /\ UNCHANGED ticksLeft

\* The start button (or Enter) on the start screen.
Start ==
  /\ Free /\ state = "MENU" /\ inputsLeft > 0
  /\ \E ks \in ShuffleChoices : Commit(startClick(This, ks))
  /\ lastOp' = <<"start", levelSlider>>
  /\ inputsLeft' = inputsLeft - 1
  /\ UNCHANGED ticksLeft

\* The quit button of the pause screen, which can be pressed while that
\* screen is shown.
Quit ==
  /\ Free /\ pauseScreen /\ inputsLeft > 0
  /\ Commit(quitClick(This))
  /\ lastOp' = <<"quit", 0>>
  /\ inputsLeft' = inputsLeft - 1
  /\ UNCHANGED ticksLeft

\* The reload a click on the quit button asked for: the browser loads the
\* page again at any time between the handlers that follow the click.
PageLoad ==
  /\ Free /\ reloading
  /\ Commit(pageLoad(This))
  /\ lastOp' = <<"load", 0>>
  /\ UNCHANGED <<inputsLeft, ticksLeft>>

\* The mute button.
Mute ==
  /\ Free /\ inputsLeft > 0
  /\ Commit(muteClick(This))
  /\ lastOp' = <<"mute", 0>>
  /\ inputsLeft' = inputsLeft - 1
  /\ UNCHANGED ticksLeft

\* The restart button, which can be pressed while the game-over screen is
\* shown, whatever the state (or R, which clicks it while the state is
\* GAMEOVER): reset(), start(1).
Restart ==
  /\ Free /\ (gameOverScreen \/ state = "GAMEOVER") /\ inputsLeft > 0
  /\ \E ks \in ShuffleChoices : Commit(restartClick(This, ks))
  /\ lastOp' = <<"start", 1>>
  /\ inputsLeft' = inputsLeft - 1
  /\ UNCHANGED ticksLeft

\* One animation frame.
Tick ==
  /\ Free /\ loopRunning
  /\ state = "PLAYING" => ticksLeft > 0
  /\ \E dt \in Deltas : \E ks \in KsFor(This) :
       /\ Commit(update(This, dt, ks))
       /\ lastOp' = <<"update", dt>>
  /\ ticksLeft' = IF state = "PLAYING" THEN ticksLeft - 1 ELSE ticksLeft
  /\ UNCHANGED inputsLeft

\* The keys and buttons of Controls act only while the state is PLAYING.
Move ==
  /\ Free /\ state = "PLAYING" /\ inputsLeft > 0
  /\ \E dir \in {-1, 1} :
       /\ Commit(playerMove(This, dir))
       /\ lastOp' = <<"playerMove", dir>>
  /\ inputsLeft' = inputsLeft - 1
  /\ UNCHANGED ticksLeft

Rotate ==
  /\ Free /\ state = "PLAYING" /\ inputsLeft > 0
  /\ \E dir \in {-1, 1} :
       /\ Commit(playerRotate(This, dir))
       /\ lastOp' = <<"playerRotate", dir>>
  /\ inputsLeft' = inputsLeft - 1
  /\ UNCHANGED ticksLeft

SoftDrop ==
  /\ Free /\ state = "PLAYING" /\ inputsLeft > 0
  /\ Commit(manualDrop(This))
  /\ lastOp' = <<"manualDrop", 0>>
  /\ inputsLeft' = inputsLeft - 1
  /\ UNCHANGED ticksLeft

HardDrop ==
  /\ Free /\ state = "PLAYING" /\ inputsLeft > 0
  /\ \E ks \in KsFor(This) : Commit(playerHardDrop(This, ks))
  /\ lastOp' = <<"playerHardDrop", 0>>
  /\ inputsLeft' = inputsLeft - 1
  /\ UNCHANGED ticksLeft

Hold ==
  /\ Free /\ state = "PLAYING" /\ inputsLeft > 0
  /\ \E ks \in KsFor(This) : Commit(holdTetromino(This, ks))
  /\ lastOp' = <<"holdTetromino", 0>>
  /\ inputsLeft' = inputsLeft - 1
  /\ UNCHANGED ticksLeft

\* P or Escape, the pause button, or the resume button of the pause
\* screen, which can be pressed while that screen is shown.
Pause ==
  /\ Free /\ (state \in {"PLAYING", "PAUSED"} \/ pauseScreen)
  /\ inputsLeft > 0
  /\ Commit(togglePause(This))
  /\ lastOp' = <<"togglePause", 0>>
  /\ inputsLeft' = inputsLeft - 1
  /\ UNCHANGED ticksLeft

\* A game key pressed while the game is not PLAYING.
IdleKey ==
  /\ Free /\ state # "PLAYING" /\ inputsLeft > 0
  /\ \E keyCode \in GameKeys : \E ks \in KsFor(This) :
       /\ Commit(keydown(This, keyCode, ks))
       /\ lastOp' = <<"keydown", keyCode>>
  /\ inputsLeft' = inputsLeft - 1
  /\ UNCHANGED ticksLeft

\* The long-press timer of a touch that began while PLAYING fires after
\* the game was paused or ended: it calls holdTetromino() unguarded.
LongPress ==
  /\ Free /\ state \in {"PAUSED", "GAMEOVER"} /\ inputsLeft > 0
  /\ \E ks \in KsFor(This) : Commit(holdTetromino(This, ks))
  /\ lastOp' = <<"holdTetromino", 0>>
  /\ inputsLeft' = inputsLeft - 1
  /\ UNCHANGED ticksLeft

\* The callback of a live countdown interval; the browser runs it at any
\* time between the other handlers.
Countdown ==
  /\ Free /\ ticksLeft > 0
  /\ \E i \in 1..Len(timers) :
       /\ Commit(countdownCallback(This, i))
       /\ lastOp' = <<"countdown", i>>
  /\ ticksLeft' = ticksLeft - 1
  /\ UNCHANGED inputsLeft

Next ==
  \/ Scripted
  \/ Slide \/ Start \/ Restart \/ Quit \/ PageLoad \/ Mute \/ Tick \/ Countdown
  \/ Move \/ Rotate \/ SoftDrop \/ HardDrop \/ Hold \/ Pause
  \/ IdleKey \/ LongPress

Spec == Init /\ [][Next]_vars

\* ------------------------------------------------- the first piece alone
\* The life of the first piece of a game under an unbounded run of frames,
\* moves and rotations: the game is started, its countdown has run out,
\* and the run ends when the piece is locked or the game is over.
Started(ks) ==
  countdownCallback(countdownCallback(countdownCallback(countdownCallback(
    start(Constructed, 1, ks), 1), 1), 1), 1)

\* The first pieces of these runs: I (0), O (3) and T (4), by their place
\* in the array fillBag() shuffles.
LiveFirst == {0, 3, 4}

LiveInit ==
  /\ \E j \in LiveFirst : Load(Started(ShuffleFor(j)))
  /\ script = << >> /\ shuffles = << >>
  /\ lastOp = <<"countdown", 0>>
  /\ inputsLeft = MaxInputs /\ ticksLeft = MaxTicks

FirstPieceActive == state = "PLAYING" /\ nLocks = 0

\* One animation frame, some positive time after the previous one.
LiveTick ==
  /\ FirstPieceActive /\ loopRunning
  /\ \E dt \in Deltas : \E ks \in KsFor(This) :
       /\ \E h \in {update(This, dt, ks)} : Commit(h)
       /\ lastOp' = <<"update", dt>>
  /\ UNCHANGED <<script, shuffles, inputsLeft, ticksLeft>>

LiveMove ==
  /\ FirstPieceActive
  /\ \E dir \in {-1, 1} :
       /\ \E h \in {playerMove(This, dir)} : Commit(h)
       /\ lastOp' = <<"playerMove", dir>>
  /\ UNCHANGED <<script, shuffles, inputsLeft, ticksLeft>>

LiveRotate ==
  /\ FirstPieceActive
  /\ \E dir \in {-1, 1} :
       /\ \E h \in {playerRotate(This, dir)} : Commit(h)
       /\ lastOp' = <<"playerRotate", dir>>
  /\ UNCHANGED <<script, shuffles, inputsLeft, ticksLeft>>

LiveNext == LiveTick \/ LiveMove \/ LiveRotate

\* requestAnimationFrame keeps calling update() while the page is shown:
\* frames cannot be postponed for ever.
LiveSpec == LiveInit /\ [][LiveNext]_vars /\ WF_vars(LiveTick)

\* ------------------------------------------------------------- claims
Range(s) == {s[i] : i \in DOMAIN s}

\* The step in which update() runs completeClear().
CompleteStep ==
  /\ lastOp'[1] = "update" /\ state = "PLAYING"
  /\ isAnimatingClear /\ ~isAnimatingClear'

\* The rows of arena that are not listed in ys, in their order.
KeptRows(arena, ys) ==
  LET kept == SelectSeq([i \in 1..Len(arena) |-> i - 1],
                        LAMBDA y : y \notin Range(ys))
  IN  [i \in 1..Len(kept) |-> arena[kept[i] + 1]]

\* C1: a completed clear of the K rows recorded as full leaves ROWS rows:
\* K empty rows on top, and below them the rows that were not recorded,
\* in their original order.
C1_ClearRemovesTheFullRows ==
  [][CompleteStep =>
       /\ Len(grid') = ROWS
       /\ grid' = [i \in 1..Len(clearingLines) |-> EmptyRow]
                    \o KeptRows(grid, clearingLines)]_vars

\* C2: the kinds drawn since the last fillBag() are all different and are
\* the kinds missing from the bag, so the seven draws of a block are the
\* seven kinds, once each, and a block ends exactly when the bag is empty.
C2_BlocksHoldEachKindOnce ==
  state # "MENU" =>
    /\ \A i, j \in 1..Len(drawn) : drawn[i] = drawn[j] => i = j
    /\ Range(drawn) \cap Range(bag) = {}
    /\ Range(drawn) \cup Range(bag) = Kinds
    /\ Len(drawn) + Len(bag) = 7
    /\ Len(drawn) = 7 => Range(drawn) = Kinds

\* A block whose seven draws were made by the start, a hold and locks.
C2_Witness ==
  /\ Len(drawn) = 7 /\ holdPiece # "null" /\ nLocks > 0
  /\ lastOp[1] = "playerHardDrop" /\ script = << >>

\* The n-th call of the run t committed its rotation: a rejected call
\* leaves the rotation index as it was.
Committed(t, n) == t[n + 1].player.rotationIndex # t[n].player.rotationIndex

\* The n-th call committed with the (0,0) candidate.
Unkicked(t, n) == Committed(t, n) /\ t[n + 1].player.pos = t[n].player.pos

\* One more call of playerRotate(dir) after each of the runs ts.
TurnOn(ts, dir) == {Append(t, playerRotate(t[Len(t)], dir)) : t \in ts}

\* The games before and after each of four calls of playerRotate(dir) on g.
FourTurns(g, dir) ==
  TurnOn(TurnOn(TurnOn(TurnOn({<<g>>}, dir), dir), dir), dir)

Restored(t) ==
  /\ t[5].player.matrix = t[1].player.matrix
  /\ t[5].player.rotationIndex = t[1].player.rotationIndex

RestoredInPlace(t) ==
  (\A n \in 1..4 : Unkicked(t, n))
    => t[5].player.pos = t[1].player.pos

\* C3 as claimed: four rotations in one direction restore the matrix and
\* the rotationIndex of any active piece, and its position when all four
\* commit with the (0,0) candidate.
C3_FourTurnsRestore ==
  state = "PLAYING" =>
    \A dir \in {-1, 1} : \A t \in FourTurns(This, dir) :
      Restored(t) /\ RestoredInPlace(t)

\* C3 as amended: four rotations in one direction, each of which commits
\* (none is rejected by all its kick candidates), restore the matrix and
\* the rotationIndex, and the position when all commit with (0,0).
C3_FourCommittedTurnsRestore ==
  state = "PLAYING" =>
    \A dir \in {-1, 1} : \A t \in FourTurns(This, dir) :
      (\A n \in 1..4 : Committed(t, n))
        => Restored(t) /\ RestoredInPlace(t)

\* A piece that was just turned and whose next four clockwise turns all
\* commit, one of them with a kick.
C3_Witness ==
  /\ state = "PLAYING" /\ lastOp = <<"playerRotate", 1>>
  /\ player.tetromino # "O"
  /\ \E t \in FourTurns(This, 1) :
       /\ \A n \in 1..4 : Committed(t, n)
       /\ \E n \in 1..4 : ~Unkicked(t, n)


\* The grid cells <<row, column>> (0-based) under the occupied cells of
\* the matrix of p at its position.
Cells(p) ==
  {<<y + p.pos.y, x + p.pos.x>> :
     <<y, x>> \in {c \in (0..(Len(p.matrix) - 1)) \X (0..(Len(p.matrix) - 1)) :
                     p.matrix[c[1] + 1][c[2] + 1] # 0}}

At(p, dy) == [p EXCEPT !.pos.y = p.pos.y + dy]

\* The placements the kick loop of playerRotate(dir) hands to collide().
TriedKicks(g, dir) ==
  LET kicks == getKickData(g.player.tetromino, g.player.rotationIndex, dir)
      fits == FittingKicks(g, dir)
      last == IF fits = {} THEN Len(kicks) ELSE Min(fits)
  IN  {KickPlacement(g.player, rotate(g.player.matrix, dir), kicks[i]) :
         i \in 1..last}

\* The placements the handlers hand to collide() in state g.
Tested(g) ==
  {Down(g.player)}
    \cup {[g.player EXCEPT !.pos.x = g.player.pos.x + dir] : dir \in {-1, 1}}
    \cup TriedKicks(g, 1) \cup TriedKicks(g, -1)

OutOfBounds(p) ==
  \E c \in Cells(p) : c[2] \notin 0..(COLS - 1) \/ c[1] >= ROWS

OnOccupied(arena, p) ==
  \E c \in Cells(p) :
     /\ c[1] \in 0..(ROWS - 1) /\ c[2] \in 0..(COLS - 1)
     /\ arena[c[1] + 1][c[2] + 1] # 0

\* C4: collide() is true exactly when an occupied cell of the piece is at
\* a column outside [0, COLS), at a row >= ROWS or on a non-empty grid cell.
C4_CollideIsBoundsOrOverlap ==
  state = "PLAYING" =>
    \A q \in Tested(This) :
       collide(grid, q) <=> (OutOfBounds(q) \/ OnOccupied(grid, q))

\* C5: a placement with an occupied cell above row 0, every occupied cell
\* inside the horizontal bounds and none on an occupied grid cell is not a
\* collision.
C5_AboveTheTopIsFree ==
  state = "PLAYING" =>
    \A q \in Tested(This) :
       ( /\ \E c \in Cells(q) : c[1] < 0
         /\ \A c \in Cells(q) : c[2] \in 0..(COLS - 1)
         /\ ~OnOccupied(grid, q) )
       => ~collide(grid, q)

\* A hard drop of the active piece.
HardDropStep == lastOp'[1] = "playerHardDrop" /\ state = "PLAYING"

\* The grid g with the cells of p filled, whatever the colour.
FilledBy(g, p) ==
  \A r \in 0..(ROWS - 1) : \A c \in 0..(COLS - 1) :
     g[r + 1][c + 1] # 0 <=> <<r, c>> \in Cells(p)

\* The row a piece comes to rest at on an empty board: its lowest occupied
\* cell is on the bottom row.
RestRow(p) ==
  CHOOSE y \in 0..ROWS :
    /\ \A c \in Cells([p EXCEPT !.pos.y = y]) : c[1] <= ROWS - 1
    /\ \E c \in Cells([p EXCEPT !.pos.y = y]) : c[1] = ROWS - 1

\* C6: on an empty board a hard drop of a freshly spawned piece (y = 0)
\* of any kind puts the piece, x unchanged, on the lowest row that does
\* not collide, merges it there in the same call and adds
\* 2 x (ROWS - 1 - startRow - 1) = 36 to the score.
C6_HardDropOnEmptyBoard ==
  [][( /\ HardDropStep /\ grid = createGrid
       /\ player.pos.y = 0 /\ player.rotationIndex = 0
       /\ player.matrix = Shape(player.tetromino) )
     => /\ nLocks' = nLocks + 1
        /\ ~collide(grid, [player EXCEPT !.pos.y = RestRow(player)])
        /\ collide(grid, [player EXCEPT !.pos.y = RestRow(player) + 1])
        /\ FilledBy(grid', [player EXCEPT !.pos.y = RestRow(player)])
        /\ score' = score + 2 * (ROWS - 1 - player.pos.y - 1)
        /\ score' = score + 36]_vars

\* The first piece of a game, hard-dropped from its spawn row.
C6_Witness ==
  /\ lastOp[1] = "playerHardDrop" /\ nLocks = 1 /\ score = 36
  /\ Cardinality({c \in (1..ROWS) \X (1..COLS) : grid[c[1]][c[2]] # 0}) = 4

\* The rows a hard drop takes the piece down: -1 when the piece collides
\* where it is, and the call lifts it one row.
Descent(arena, p) ==
  IF collide(arena, p) THEN -1
  ELSE CHOOSE k \in 0..ROWS :
         /\ \A j \in 0..k : ~collide(arena, At(p, j))
         /\ collide(arena, At(p, k + 1))

\* C7 as claimed: a hard drop adds 2 x max(0, d - 1) to the score, d being
\* the rows the piece descends, and nothing else.
C7_HardDropScoresRowsLessOne ==
  [][HardDropStep
       => score' = score + 2 * Max(0, Descent(grid, player) - 1)]_vars

\* C7 as amended: a hard drop adds 2 x max(0, d) to the score, d being the
\* rows the piece descends to the row it is merged at, and nothing else.
C7_HardDropScoresRows ==
  [][HardDropStep
       => \A d \in {Descent(grid, player)} :
            /\ score' = score + 2 * Max(0, d)
            /\ d >= 0
                 => \A c \in Cells(At(player, d)) :
                       grid'[c[1] + 1][c[2] + 1] = ColorOf(player.tetromino)]_vars

\* A hard drop onto a board that already holds pieces, made after the
\* script of the run.
C7_Witness ==
  /\ lastOp[1] = "playerHardDrop" /\ script = << >> /\ nLocks >= 2
  /\ inputsLeft < MaxInputs /\ score > 36


\* The base points of a clear of n rows.
BaseScore(n) ==
  CASE n = 1 -> 100 [] n = 2 -> 300 [] n = 3 -> 500 [] n = 4 -> 800
    [] OTHER -> 100

\* C8: a completed clear of n rows at level L adds BaseScore(n) x L to the
\* score and n to lines, n being the number of rows the lock that started
\* the clear made full.
C8_ClearScoresTheRowsOfTheLock ==
  [][CompleteStep
       => /\ score' = score + BaseScore(lockFilled) * level
          /\ lines' = lines + lockFilled]_vars

\* The frames per drop of levels 1..19, as the claim tabulates them.
LevelFrames ==
  <<48, 43, 38, 33, 28, 23, 18, 13, 8, 6, 5, 5, 5, 4, 4, 4, 3, 3, 3>>

\* The largest level the table is checked for.
MaxLevel == 25

\* C9: after a completed clear, level becomes floor(lines / 10) + 1 when
\* that exceeds it, and dropInterval the table value of the new level (in
\* thirds of a ms: frames x 1000 / 60 x 3); otherwise both are unchanged.
\* The lookup gives the table entry for levels 0..19 and 2 frames above,
\* never the 4-frame fallback.
C9_LevelFollowsLines ==
  [][ /\ CompleteStep =>
           IF (lines' \div 10) + 1 > level
           THEN /\ level' = (lines' \div 10) + 1
                /\ level' \in 1..19
                     => dropInterval' = LevelFrames[level'] * 50
                /\ level' > 19 => dropInterval' = 2 * 50
           ELSE level' = level /\ dropInterval' = dropInterval
      /\ \A lvl \in 0..MaxLevel :
           DropFrames(lvl) = IF lvl = 0 THEN 48
                             ELSE IF lvl <= 19 THEN LevelFrames[lvl] ELSE 2
    ]_vars

\* The clear of the tenth line has just raised the level to 2.
C9_Witness ==
  /\ lastOp[1] = "update" /\ lines = 10 /\ level = 2
  /\ dropInterval = 43 * 50 /\ ~isAnimatingClear

\* A call of holdTetromino() while the game is PLAYING.
HoldStep == lastOp'[1] = "holdTetromino" /\ state = "PLAYING"

\* The piece a spawn of the kind makes active.
SpawnOf(kind) ==
  [pos |-> [x |-> (COLS \div 2) - (Len(Shape(kind)[1]) \div 2), y |-> 0],
   matrix |-> Shape(kind), tetromino |-> kind, rotationIndex |-> 0]

\* Hold with an empty slot: the active kind goes to the slot, the lookahead
\* becomes active as spawned and a new lookahead is drawn from the bag.
HoldStores ==
  (HoldStep /\ holdPiece = "null")
    => /\ holdPiece' = player.tetromino
       /\ player' = SpawnOf(nextPiece)
       /\ bag # << >> => /\ nextPiece' = bag[Len(bag)]
                         /\ bag' = SubSeq(bag, 1, Len(bag) - 1)
       /\ bag = << >> => /\ Len(bag') = 6
                         /\ Range(bag') \cup {nextPiece'} = Kinds
       /\ ~canHold'

\* A further hold before the next lock changes nothing.
HoldAgainIsNoOp ==
  (HoldStep /\ heldAt = nLocks)
    => UNCHANGED <<holdPiece, player, nextPiece, bag, grid, canHold, state>>

\* C10 as claimed: hold with an empty slot stores the active kind and
\* spawns the lookahead; a further hold before the next lock is a no-op;
\* canHold becomes true again only when a piece locks.
C10_HoldOncePerLock ==
  [][ /\ HoldStores /\ HoldAgainIsNoOp
      /\ (~canHold /\ canHold') => nLocks' = nLocks + 1 ]_vars

\* C10 as amended: the same, canHold becoming true again only when a piece
\* locks, when start() begins a new game or when the page is loaded again
\* and a new object constructed.
C10_HoldOncePerLockOrGame ==
  [][ /\ HoldStores /\ HoldAgainIsNoOp
      /\ (~canHold /\ canHold')
           => (nLocks' = nLocks + 1 \/ lastOp'[1] \in {"start", "load"})
    ]_vars

\* The second of two holds with no lock between them.
C10_Witness ==
  /\ lastOp[1] = "holdTetromino" /\ state = "PLAYING" /\ script = << >>
  /\ holdPiece # "null" /\ ~canHold /\ heldAt = nLocks
  /\ inputsLeft = 0 /\ nLocks = 0 /\ Len(drawn) = 3


\* A call of holdTetromino() that finds the slot occupied and hold allowed.
SwapStep ==
  /\ lastOp'[1] = "holdTetromino" /\ state = "PLAYING"
  /\ canHold /\ holdPiece # "null"

\* C11: hold with an occupied slot exchanges the active and the held kind
\* and leaves the active piece a fresh spawn of the swapped-in kind (base
\* shape, rotationIndex 0, y = 0, centred x), whatever the previous piece's
\* rotation and position; the lookahead piece and the bag are unchanged.
C11_HoldSwapsAndRespawns ==
  [][SwapStep
       => /\ player' = SpawnOf(holdPiece)
          /\ holdPiece' = player.tetromino
          /\ nextPiece' = nextPiece /\ bag' = bag]_vars

\* A swap that took a turned and shifted piece out of play.
C11_Witness ==
  /\ lastOp[1] = "holdTetromino" /\ script = << >>
  /\ inputsLeft = MaxInputs - 1
  /\ holdPiece \notin {"null", "T"} /\ player = SpawnOf("T")
  /\ heldAt = 1 /\ ~canHold


\* A call of playerMove(dir) or playerRotate(dir) on a running game.
ShiftStep ==
  lastOp'[1] \in {"playerMove", "playerRotate"} /\ state = "PLAYING"

\* The call of that step succeeds: the moved piece, or some kick placement
\* of the turned piece, does not collide.
ShiftSucceeds ==
  IF lastOp'[1] = "playerMove"
  THEN ~collide(grid, [player EXCEPT !.pos.x = player.pos.x + lastOp'[2]])
  ELSE FittingKicks(This, lastOp'[2]) # {}

\* A frame of update() that finds the game running and no clear animation.
PlayFrame ==
  lastOp'[1] = "update" /\ state = "PLAYING" /\ ~isAnimatingClear

\* A successful 16th move or rotation under the 500 ms leaves the timer.
CappedShiftKeepsTimer ==
  (ShiftStep /\ ShiftSucceeds /\ isLocking /\ lockMoves >= 15
     /\ lockTimer < 500)
    => lockTimer' = lockTimer /\ lockMoves' = lockMoves /\ isLocking'

\* C12: once 15 resets are used, a further successful move or rotation
\* under 500 ms does not reset the lock timer, and the piece is locked on
\* the first frame at which the time since the last permitted reset
\* reaches 500 ms.
C12_CappedPieceLocksOnTime ==
  [][ /\ CappedShiftKeepsTimer
      /\ (PlayFrame /\ isLocking /\ lockMoves >= 15)
           => (nLocks' = nLocks + 1 <=> lockTimer + lastOp'[2] >= 500) ]_vars

\* C13: a successful move or rotation while isLocking zeroes lockTimer and
\* increments lockMoves exactly when lockMoves < 15; any other move or
\* rotation changes neither; lockMoves never exceeds 15.
C13_ResetsAreCapped ==
  [][ /\ ShiftStep =>
           IF ShiftSucceeds /\ isLocking /\ lockMoves < 15
           THEN lockTimer' = 0 /\ lockMoves' = lockMoves + 1
           ELSE lockTimer' = lockTimer /\ lockMoves' = lockMoves
      /\ lockMoves' <= 15 ]_vars

\* The 15th reset: a move that zeroed a running lock timer.
C13_Witness ==
  /\ lastOp[1] = "playerMove" /\ script = << >> /\ isLocking
  /\ lockMoves = 15 /\ lockTimer = 0 /\ ticksLeft < MaxTicks
  /\ state = "PLAYING"


\* C14: once the state is GAMEOVER it stays GAMEOVER under every frame,
\* input, pause toggle and timer callback, until a restart (reset() and
\* start()) is performed.
C14_GameOverIsTerminal ==
  [][(state = "GAMEOVER" /\ lastOp'[1] # "start")
       => state' = "GAMEOVER"]_vars

\* What a pause has to leave alone.
Frozen ==
  UNCHANGED <<dropCounter, lockTimer, lockMoves, clearAnimationFrame, grid,
              player, score>>

\* C15: a frame that finds the game PAUSED, whatever time it reports,
\* leaves dropCounter, lockTimer, lockMoves, the clear-animation frame
\* counter, the grid, the piece and the score unchanged, and so do pausing
\* and resuming; a frame of the running game adds its own elapsed time to
\* the counters and nothing of the time spent paused.
C15_PauseFreezesTheTimers ==
  [][ /\ (lastOp'[1] = "update" /\ state = "PAUSED") => Frozen
      /\ lastOp'[1] = "togglePause" => Frozen
      /\ PlayFrame =>
           /\ dropCounter' =
                IF 3 * (dropCounter + lastOp'[2]) > dropInterval THEN 0
                ELSE dropCounter + lastOp'[2]
           /\ (isLocking /\ isLocking' /\ nLocks' = nLocks)
                => lockTimer' = lockTimer + lastOp'[2]
      /\ (lastOp'[1] = "update" /\ state = "PLAYING" /\ isAnimatingClear)
           => \/ clearAnimationFrame' = clearAnimationFrame + 1
      ]_vars

\* A paused game saw a frame of 900 ms and kept its lock timer at 300 ms,
\* short of the lock delay.
C15_Witness ==
  /\ lastOp = <<"update", 900>> /\ state = "PAUSED" /\ script = << >>
  /\ isLocking /\ lockTimer = 300 /\ lockMoves = 15 /\ nLocks = 0
  /\ ticksLeft = MaxTicks - 1

\* C16: a PAUSED game leaves PAUSED only through togglePause() or a
\* restart: no frame and no timer callback makes it PLAYING.
C16_OnlyAToggleResumes ==
  [][(state = "PAUSED" /\ lastOp'[1] \notin {"togglePause", "start"})
       => state' = "PAUSED"]_vars


\* A step in which lockPiece() runs.
LockStep == nLocks' = nLocks + 1

\* C17: a lock that leaves a full row starts the clear animation and
\* neither spawns the next piece nor tests top-out; the piece is spawned
\* when the animation has ended and the rows are removed.  A lock that
\* leaves no full row spawns the next piece at once.
C17_SpawnWaitsForTheClear ==
  [][ /\ LockStep =>
           IF clearingLines' # << >>
           THEN /\ isAnimatingClear'
                /\ nextPiece' = nextPiece /\ bag' = bag /\ state' = state
           ELSE /\ ~isAnimatingClear'
                /\ player' = SpawnOf(nextPiece)
      /\ CompleteStep => player' = SpawnOf(nextPiece) ]_vars


\* What an invalid operation has to leave alone.
Untouched ==
  UNCHANGED <<grid, player, holdPiece, score, isLocking, lockTimer,
              lockMoves, state>>

\* C18: the keys for move, rotate, soft drop, hard drop and hold pressed
\* while the state is GAMEOVER, MENU or PAUSED, and a hold called in those
\* states, leave the grid, the piece, the hold slot, the score, the lock
\* state and the session state unchanged; a hold while canHold is false
\* changes nothing.
C18_InvalidOperationsAreNoOps ==
  [][ /\ (lastOp'[1] = "keydown" /\ lastOp'[2] \in GameKeys
            /\ state # "PLAYING") => Untouched
      /\ (lastOp'[1] = "holdTetromino" /\ (state # "PLAYING" \/ ~canHold))
           => Untouched /\ UNCHANGED <<canHold, nextPiece, bag>> ]_vars

\* The hard-drop key pressed on the game-over screen.
C18_Witness ==
  /\ script = << >> /\ lastOp = <<"keydown", 32>>
  /\ state = "GAMEOVER" /\ nLocks > 0


\* A call of playerRotate(dir).
RotateStep == lastOp'[1] = "playerRotate"

\* The piece with the turned matrix m, displaced by each candidate of the
\* table for (kind, rotation, dir) in turn: x += offsetX, y -= offsetY.
Candidates(m) ==
  LET kicks == getKickData(player.tetromino, player.rotationIndex,
                           lastOp'[2])
  IN  [k \in 1..Len(kicks) |->
         [player EXCEPT !.matrix = m,
                        !.pos.x = player.pos.x + kicks[k][1],
                        !.pos.y = player.pos.y - kicks[k][2]]]

\* C19: playerRotate(dir) commits the first candidate, in table order,
\* whose placement of the rotated matrix does not collide, and sets
\* rotationIndex to (old + dir + 4) mod 4; a rotated matrix that fits in
\* place stays in place.  If every candidate collides, the matrix, the
\* position, rotationIndex, lockTimer and lockMoves are as before the call.
C19_FirstFittingKickIsCommitted ==
  [][RotateStep =>
       \A m \in {rotate(player.matrix, lastOp'[2])} :
       \A placed \in {Candidates(m)} :
       \A fit \in {{k \in DOMAIN placed : ~collide(grid, placed[k])}} :
         /\ \A k \in fit :
              (\A j \in 1..(k - 1) : j \notin fit)
                => player' = [placed[k] EXCEPT !.rotationIndex =
                                (player.rotationIndex + lastOp'[2] + 4) % 4]
         /\ ~collide(grid, [player EXCEPT !.matrix = m])
              => player'.pos = player.pos
         /\ fit = {}
              => /\ player' = player
                 /\ lockTimer' = lockTimer /\ lockMoves' = lockMoves]_vars

\* The T piece lying on the floor was turned clockwise: the first three
\* candidates collided and the fourth, two rows up, was committed.
C19_Witness ==
  /\ lastOp = <<"playerRotate", 1>> /\ script = << >>
  /\ state = "PLAYING" /\ nLocks = 0 /\ isLocking
  /\ player.tetromino = "T" /\ player.rotationIndex = 1
  /\ player.pos.y = ROWS - 4


\* The wall kicks of the Super Rotation System for J, L, S, T and Z, as
\* <<right, up>> displacements, by <<from, to>>.
SRS_JLSTZ(key) ==
  CASE key \in {<<0,1>>, <<2,1>>} ->
         << <<0,0>>, <<-1,0>>, <<-1,1>>, <<0,-2>>, <<-1,-2>> >>
    [] key \in {<<1,0>>, <<1,2>>} ->
         << <<0,0>>, <<1,0>>, <<1,-1>>, <<0,2>>, <<1,2>> >>
    [] key \in {<<2,3>>, <<0,3>>} ->
         << <<0,0>>, <<1,0>>, <<1,1>>, <<0,-2>>, <<1,-2>> >>
    [] key \in {<<3,2>>, <<3,0>>} ->
         << <<0,0>>, <<-1,0>>, <<-1,-1>>, <<0,2>>, <<-1,2>> >>

\* The wall kicks of the Super Rotation System for I.
SRS_I(key) ==
  CASE key \in {<<0,1>>, <<3,2>>} ->
         << <<0,0>>, <<-2,0>>, <<1,0>>, <<-2,-1>>, <<1,2>> >>
    [] key \in {<<1,0>>, <<2,3>>} ->
         << <<0,0>>, <<2,0>>, <<-1,0>>, <<2,1>>, <<-1,-2>> >>
    [] key \in {<<1,2>>, <<0,3>>} ->
         << <<0,0>>, <<-1,0>>, <<2,0>>, <<-1,2>>, <<2,-1>> >>
    [] key \in {<<2,1>>, <<3,0>>} ->
         << <<0,0>>, <<1,0>>, <<-2,0>>, <<1,-2>>, <<-2,1>> >>

\* The displacement <<right, up>> playerRotate(dir) gives the piece for
\* the k-th candidate: the tested position against the position before.
Applied(dir, k) ==
  LET kicks == getKickData(player.tetromino, player.rotationIndex, dir)
      q == KickPlacement(player, rotate(player.matrix, dir), kicks[k])
  IN  <<q.pos.x - player.pos.x, player.pos.y - q.pos.y>>

\* C20: for every transition of a J, L, S, T, Z or I piece, the
\* displacement applied for each kick candidate is the wall kick of the
\* Super Rotation System for that transition, offset for offset.
C20_KicksAreStandardSRS ==
  (state = "PLAYING" /\ player.tetromino \in Kinds \ {"O"}) =>
    \A dir \in {-1, 1} :
      LET from == player.rotationIndex
          key == <<from, (from + dir + 4) % 4>>
          srs == IF player.tetromino = "I" THEN SRS_I(key)
                 ELSE SRS_JLSTZ(key)
      IN  \A k \in 1..5 : Applied(dir, k) = srs[k]


\* C21: getKickData gives, for every kind, rotation 0..3 and direction, a
\* non-empty list that begins with (0,0); for O the list is just (0,0);
\* for I and for J, L, S, T, Z each of the 8 transitions has exactly five
\* offsets; J, L, S, T and Z share one table and the I table differs
\* from it.
C21_KickDataIsComplete ==
  \* the lists playerRotate() asks for in this state
  /\ state = "PLAYING" =>
       \A dir \in {-1, 1} :
         \A kicks \in {getKickData(player.tetromino, player.rotationIndex,
                                   dir)} :
           /\ kicks[1] = <<0, 0>>
           /\ Len(kicks) = IF player.tetromino = "O" THEN 1 ELSE 5
  \* the lists of every kind, rotation and direction: the tables never
  \* change, so they are read once, when the object is constructed
  /\ lastOp[1] = "constructor" =>
       /\ \A kind \in Kinds : \A from \in 0..3 : \A dir \in {-1, 1} :
            \A kicks \in {getKickData(kind, from, dir)} :
              /\ Len(kicks) >= 1 /\ kicks[1] = <<0, 0>>
              /\ kind = "O" => kicks = << <<0, 0>> >>
              /\ kind # "O" => Len(kicks) = 5
              /\ kind \notin {"O", "I"} => kicks = getKickData("T", from, dir)
       /\ \E from \in 0..3 : \E dir \in {-1, 1} :
            getKickData("I", from, dir) # getKickData("T", from, dir)

\* The I piece was turned counter-clockwise out of rotation 0, with the
\* candidates of the transition 0 > 3 of the I table.
C21_Witness ==
  /\ lastOp = <<"playerRotate", -1>> /\ script = << >>
  /\ player.tetromino = "I" /\ player.rotationIndex = 3
  /\ state = "PLAYING"


\* A step in which playerReset() runs: it is the one handler that draws
\* the next lookahead from the bag.  (A page load starts the history anew.)
SpawnStep == drawn' # drawn /\ lastOp'[1] # "load"

\* C22: every spawn by playerReset() makes the lookahead kind active with
\* its base shape, rotation 0, y = 0 and x = floor(COLS/2) -
\* floor(width/2); the state becomes GAMEOVER exactly when that placement
\* collides, and a PLAYING game becomes GAMEOVER in no other way.
C22_TopOutIsSpawnCollision ==
  [][ /\ SpawnStep =>
           /\ player' = SpawnOf(player'.tetromino)
           /\ lastOp'[1] # "start" => player'.tetromino = nextPiece
           /\ state' = "GAMEOVER" <=> collide(grid', player')
      /\ (state = "PLAYING" /\ state' = "GAMEOVER")
           => SpawnStep /\ collide(grid', player') ]_vars

\* A lock after the script of the run spawned a piece onto occupied cells
\* and ended the game.
C22_Witness ==
  /\ state = "GAMEOVER" /\ script = << >>
  /\ lastOp[1] \in {"playerHardDrop", "update"}
  /\ player = SpawnOf(player.tetromino) /\ collide(grid, player)


\* A call of manualDrop() on a running game.
SoftDropStep == lastOp'[1] = "manualDrop" /\ state = "PLAYING"

\* C23: manualDrop() moves the piece down one row and adds 1 to the score
\* when the row below is free; when it is blocked, position and score
\* stay, isLocking becomes true and lockTimer is zeroed only if the lock
\* delay was not armed already; the call never merges the piece.
C23_SoftDropStepsOrArms ==
  [][SoftDropStep =>
       /\ grid' = grid /\ nLocks' = nLocks
       /\ IF ~collide(grid, At(player, 1))
          THEN player' = At(player, 1) /\ score' = score + 1
          ELSE /\ player' = player /\ score' = score
               /\ isLocking'
               /\ lockTimer' = IF isLocking THEN lockTimer ELSE 0]_vars

\* A soft drop of a resting piece whose lock timer was running: the timer
\* kept its 300 ms.
C23_Witness ==
  /\ lastOp = <<"manualDrop", 0>> /\ script = << >> /\ state = "PLAYING"
  /\ isLocking /\ lockTimer = 300 /\ collide(grid, At(player, 1))
  /\ inputsLeft < MaxInputs


\* C24: when the game becomes GAMEOVER the high score becomes the larger
\* of the previous high score and the final score; the high score never
\* decreases, and is never less than the score of a game that is over.
C24_HighScoreIsTheMaximum ==
  [][ /\ (state # "GAMEOVER" /\ state' = "GAMEOVER")
           => highScore' = Max(highScore, score')
      /\ highScore' >= highScore
      /\ state' = "GAMEOVER" => highScore' >= score' ]_vars

\* A game restarted after a game over: the new game has no points yet and
\* the high score is the final score of the game before.
C24_Witness ==
  /\ lastOp = <<"start", 1>> /\ script = << >> /\ state = "PLAYING"
  /\ score = 0 /\ highScore > 0 /\ inputsLeft < MaxInputs


\* ---------------------------------------------------------------- C25
\* C25: immediately after every operation that makes a new piece active
\* (a lock followed by a spawn, a hold with an empty slot, a hold that
\* swaps in the held kind) isLocking is false, lockTimer is 0 and
\* lockMoves is 0.
C25_SpawnDisarmsTheLockDelay ==
  [][(SpawnStep \/ SwapStep)
       => ~isLocking' /\ lockTimer' = 0 /\ lockMoves' = 0]_vars


\* ---------------------------------------------------------------- C26
\* A frame of a PLAYING game whose clear animation is running.
ClearFrame ==
  lastOp'[1] = "update" /\ state = "PLAYING" /\ isAnimatingClear

\* C26: a frame during the clear animation only advances
\* clearAnimationFrame: dropCounter, lockTimer and the lock-delay flags
\* keep their values, the piece neither moves nor locks.  The frame that
\* takes the counter to CLEAR_FRAMES removes rows and updates score, lines
\* and level, and leaves isAnimatingClear false and clearingLines empty;
\* no other frame of the animation touches grid, score, lines or level, and
\* lines grows in no other step at all.
C26_ClearFramesOnlyCount ==
  [][ /\ ClearFrame =>
           /\ clearAnimationFrame' = clearAnimationFrame + 1
           /\ dropCounter' = dropCounter /\ lockTimer' = lockTimer
           /\ isLocking' = isLocking /\ lockMoves' = lockMoves
           /\ player' = player /\ nLocks' = nLocks /\ drawn' = drawn
           /\ state' = state
           /\ IF clearAnimationFrame + 1 >= CLEAR_FRAMES
              THEN /\ ~isAnimatingClear' /\ clearingLines' = << >>
                   /\ grid' # grid
                   /\ lines' = lines + Len(clearingLines)
                   /\ score' = score + LineScore(Len(clearingLines)) * level
                   /\ level' = Max(level, (lines' \div 10) + 1)
              ELSE /\ isAnimatingClear' /\ clearingLines' = clearingLines
                   /\ grid' = grid /\ lines' = lines /\ score' = score
                   /\ level' = level
      /\ lines' > lines =>
           ClearFrame /\ clearAnimationFrame' = CLEAR_FRAMES ]_vars

\* The frame that ended a clear animation.
C26_Witness ==
  /\ lastOp[1] = "update" /\ script = << >> /\ ticksLeft < MaxTicks
  /\ state = "PLAYING" /\ ~isAnimatingClear /\ clearingLines = << >>
  /\ clearAnimationFrame = CLEAR_FRAMES /\ lines > 0


\* ---------------------------------------------------------------- C27
\* C27: the base shapes of the catalog are never modified: in every
\* reachable state, after any spawns, rotations (committed or reverted),
\* holds, locks and restarts, TETROMINOS[kind].shape is the shape the
\* catalog was written with, for every kind, and the active matrix is an
\* array of its own.
C27_CatalogShapesAreNeverModified ==
  /\ \A kind \in Kinds : shapes[kind] = Shape(kind)
  /\ state # "MENU" => matrixOf = "own"

\* A piece spawned after a hold and a lock, turned away from its base
\* shape.
C27_Witness ==
  /\ lastOp[1] = "playerRotate" /\ script = << >> /\ inputsLeft < MaxInputs
  /\ holdPiece # "null" /\ nLocks > 0
  /\ player.matrix # Shape(player.tetromino)
  /\ player.matrix # shapes[player.tetromino]


\* ---------------------------------------------------------------- C28
\* C28: under fair frames with positive elapsed time in state PLAYING,
\* whatever moves and rotations the player interleaves, the active piece is
\* eventually locked or the game ends: no sequence of inputs keeps one
\* piece unlocked for ever.  Checked under LiveSpec, for the first piece of
\* a game.
C28_EveryPieceIsEventuallyLocked ==
  <>(nLocks > 0 \/ state = "GAMEOVER")


\* ---------------------------------------------------------------- C29
\* C29: in every reachable state isAnimatingClear and isLocking are not
\* both true, under any interleaving of frames with move, rotate, soft
\* drop, hard drop and hold.
C29_NeverClearingAndLocking == ~(isAnimatingClear /\ isLocking)


\* ---------------------------------------------------------------- C30
\* C30: reset() discards the session it is called on: whenever the game is
\* over (the one state in which the restart button calls it), the game
\* reset() leaves has an empty grid, score 0, lines 0, level 1, an empty
\* and usable hold slot (canHold true), no clear animation pending, the
\* lock delay disarmed (isLocking false, lockTimer 0, lockMoves 0),
\* dropCounter 0 and a state other than GAMEOVER.
C30_ResetDiscardsTheSession ==
  state = "GAMEOVER" =>
    \A r \in {reset(This)} :
      /\ r.grid = createGrid /\ r.score = 0 /\ r.lines = 0 /\ r.level = 1
      /\ r.holdPiece = "null" /\ r.canHold
      /\ ~r.isAnimatingClear /\ r.clearingLines = << >>
      /\ ~r.isLocking /\ r.lockTimer = 0 /\ r.lockMoves = 0
      /\ r.dropCounter = 0
      /\ r.state # "GAMEOVER"


\* ---------------------------------------------------------------- C31
\* C31: in every reachable state with state PLAYING or PAUSED the active
\* piece is in a legal placement: no occupied cell of its matrix lies
\* outside the grid or on an occupied cell of the grid.
C31_ActivePieceIsLegal ==
  state \in {"PLAYING", "PAUSED"} => ~collide(grid, player)


\* ---------------------------------------------------------------- C32
\* C32: whenever the lock timer finalizes a lock inside a frame of update(),
\* the active piece is resting: one row below the position at which it is
\* merged it would collide.  (A frame that locks has not moved the piece:
\* a gravity step that succeeds disarms the lock delay.)
C32_TimerLocksOnlyARestingPiece ==
  [][ (PlayFrame /\ LockStep) => collide(grid, At(player, 1)) ]_vars


\* ---------------------------------------------------------------- C33
\* The placement a lock hands to merge(): where the loop of playerHardDrop()
\* leaves the piece, or, for a lock by the timer, where the piece is.
MergedAt ==
  IF lastOp'[1] = "playerHardDrop"
  THEN At(player, DropCount(grid, player) - 1)
  ELSE player

\* C33: every merge writes only into cells that are inside the grid and
\* empty immediately before the merge: the placement merged by a lock, by
\* the timer or by a hard drop, does not collide.
C33_MergeWritesOnlyEmptyCells ==
  [][ LockStep => ~collide(grid, MergedAt) ]_vars


\* ---------------------------------------------------------------- C34
\* C34: in every reachable state in which no clear animation is in
\* progress, the grid contains no full row.
C34_NoFullRowOutsideAClear ==
  ~isAnimatingClear => FullRows(grid) = << >>

=============================================================================
